---- MODULE Spec2Model ----
(***************************************************************************)
(* PdsTable (src/pdstable/__init__.py): a table is built once from a PDS3  *)
(* label and the bytes of a fixed-length ASCII file, and is then queried   *)
(* through row dictionaries, predicate lookups, lookups by volume and      *)
(* file specification, and the index of rows by file name key.  The table  *)
(* description of a PDS4 label is resolved by Pds4TableInfo                *)
(* (src/pdstable/pds4table.py) from the file areas of the label; parsing   *)
(* the XML of the label is not modelled.                                   *)
(*                                                                         *)
(* Text (column names, raw fields, string values) is a tuple of one-       *)
(* character strings, so that strip, lower, int() and substring tests are  *)
(* computed character by character.  A table value is a record             *)
(* [k, i, s, e]: k is the Python type of the value, i its number, s its    *)
(* text and e its elements (multi-item columns).                           *)
(*                                                                         *)
(* Not modelled: float and time columns, table_callback and nostrip (left  *)
(* at their defaults).  A callback is a function that rewrites one text of *)
(* the width of the field; a replacement dictionary pairs texts with texts *)
(* that read as numbers, or numbers with numbers.                          *)
(***************************************************************************)
EXTENDS Integers, Sequences, FiniteSets, TLC

VARIABLES
    label,           \* the parsed PDS3 label (input)
    file,            \* the bytes of the table file (input)
    args,            \* the constructor's arguments (input)
    pc,              \* "new", "ready" (constructed), "failed" or "returned"
                     \* (a query has returned or raised)
    error,           \* the exception that ended construction, "" if none
    first,           \* self.first
    rows,            \* self.rows
    keys,            \* self.keys
    column_values,   \* self.column_values
    column_masks,    \* self.column_masks
    warnings,        \* the warnings.warn calls of construction, in order
    _dicts_by_row,   \* self._dicts_by_row
    row_dict_builds, \* how often each entry of _dicts_by_row was built
    result,          \* the outcome of the last query
    _volume_colname_index,   \* self._volume_colname_index
    _volume_colname,         \* self._volume_colname
    _volume_colname_lc,      \* self._volume_colname_lc
    _filespec_colname_index, \* self._filespec_colname_index
    _filespec_colname,       \* self._filespec_colname
    _filespec_colname_lc,    \* self._filespec_colname_lc
    filespec_colname_index,  \* self.filespec_colname_index
    filespec_colname,        \* self.filespec_colname
    filespec_colname_lc,     \* self.filespec_colname_lc
    _rows_by_filename,       \* self._rows_by_filename
    filename_keys,           \* self.filename_keys
    callers                  \* where each concurrent caller of the lazy
                             \* caches stands in the method it runs

\* the attributes the volume and file specification lookups cache
volume_vars == <<_volume_colname_index, _volume_colname, _volume_colname_lc>>

filespec_vars ==
    <<_filespec_colname_index, _filespec_colname, _filespec_colname_lc,
      filespec_colname_index, filespec_colname, filespec_colname_lc>>

\* the index by filename key
index_vars == <<_rows_by_filename, filename_keys>>

vars == <<label, file, args, pc, error, first, rows, keys, column_values,
          column_masks, warnings, _dicts_by_row, row_dict_builds, result,
          volume_vars, filespec_vars, index_vars, callers>>

table_vars == <<first, rows, keys, column_values, column_masks, warnings>>

\* None, and a value that is not None: an attribute is None or <<value>>
None == <<>>

Some(x) == <<x>>

\* the threads that call the lazy caches of one table without a lock
Callers == {1, 2}

\* a caller outside every method: at is the statement it stands before, op
\* the method it called, ret the statement of the calling method to go back
\* to, found and built the locals k, guess and rows_by_filename,
\* filename_keys, out what the call returned
idle ==
    [at |-> "idle", op |-> "", ret |-> "", found |-> <<>>, built |-> <<>>,
     out |-> <<>>]

----------------------------------------------------------------------------
(* Python text operations *)

ASCII_UPPER == <<"A","B","C","D","E","F","G","H","I","J","K","L","M",
                 "N","O","P","Q","R","S","T","U","V","W","X","Y","Z">>

ASCII_LOWER == <<"a","b","c","d","e","f","g","h","i","j","k","l","m",
                 "n","o","p","q","r","s","t","u","v","w","x","y","z">>

ASCII_DIGITS == <<"0","1","2","3","4","5","6","7","8","9">>

WHITESPACE == {" ", "\t", "\n", "\r"}

\* the sequence f, computed once
seq(f) == <<>> \o f

lower_char(c) ==
    IF \E j \in DOMAIN ASCII_UPPER : ASCII_UPPER[j] = c
    THEN ASCII_LOWER[CHOOSE j \in DOMAIN ASCII_UPPER : ASCII_UPPER[j] = c]
    ELSE c

lower(s) == seq([j \in 1..Len(s) |-> lower_char(s[j])])

RECURSIVE lstrip(_)
lstrip(s) == IF Len(s) > 0 /\ s[1] \in WHITESPACE THEN lstrip(Tail(s)) ELSE s

RECURSIVE rstrip(_)
rstrip(s) ==
    IF Len(s) > 0 /\ s[Len(s)] \in WHITESPACE
    THEN rstrip(SubSeq(s, 1, Len(s) - 1))
    ELSE s

strip(s) == rstrip(lstrip(s))

\* Python's `sub in s` for two strings
str_contains(s, sub) ==
    \E j \in 0..(Len(s) - Len(sub)) : SubSeq(s, j + 1, j + Len(sub)) = sub

endswith(s, suffix) ==
    Len(s) >= Len(suffix) /\ SubSeq(s, Len(s) - Len(suffix) + 1, Len(s)) = suffix

replace_char(s, old, new) ==
    seq([j \in 1..Len(s) |-> IF s[j] = old THEN new ELSE s[j]])

is_digit(c) == \E d \in DOMAIN ASCII_DIGITS : ASCII_DIGITS[d] = c

digit_value(c) == (CHOOSE d \in DOMAIN ASCII_DIGITS : ASCII_DIGITS[d] = c) - 1

RECURSIVE digits_value(_)
digits_value(s) ==
    IF Len(s) = 0 THEN 0
    ELSE 10 * digits_value(SubSeq(s, 1, Len(s) - 1)) + digit_value(s[Len(s)])

\* int(raw): surrounding whitespace, an optional sign, one or more digits;
\* anything else raises ValueError (ok = FALSE).
int(raw) ==
    LET t      == strip(raw)
        signed == Len(t) > 0 /\ t[1] \in {"-", "+"}
        body   == IF signed THEN Tail(t) ELSE t
        ok     == Len(body) > 0 /\ \A j \in 1..Len(body) : is_digit(body[j])
    IN  [ok |-> ok,
         v  |-> IF ~ok THEN 0
                ELSE IF signed /\ t[1] = "-" THEN 0 - digits_value(body)
                ELSE digits_value(body)]

\* s.rfind(c) + 1: the last position of the character c in s, 0 when absent
rfind(s, c) ==
    IF \E j \in 1..Len(s) : s[j] = c
    THEN CHOOSE j \in 1..Len(s) :
            s[j] = c /\ \A i \in (j + 1)..Len(s) : s[i] # c
    ELSE 0

\* s.find(c) + 1
find(s, c) ==
    IF \E j \in 1..Len(s) : s[j] = c
    THEN CHOOSE j \in 1..Len(s) : s[j] = c /\ \A i \in 1..(j - 1) : s[i] # c
    ELSE 0

\* s.split(c) for a character c
RECURSIVE split(_, _)
split(s, c) ==
    IF find(s, c) = 0 THEN <<s>>
    ELSE <<SubSeq(s, 1, find(s, c) - 1)>>
         \o split(SubSeq(s, find(s, c) + 1, Len(s)), c)

\* sep.join(parts)
RECURSIVE join(_, _)
join(sep, parts) ==
    IF Len(parts) = 0 THEN <<>>
    ELSE IF Len(parts) = 1 THEN parts[1]
    ELSE parts[1] \o sep \o join(sep, Tail(parts))

\* os.path.basename (posixpath)
basename(p) == SubSeq(p, rfind(p, "/") + 1, Len(p))

\* os.path.splitext (posixpath): <<root, ext>>; the extension starts at the
\* last dot of the basename, unless only dots precede it there
splitext(p) ==
    IF /\ rfind(p, ".") > rfind(p, "/")
       /\ \E j \in (rfind(p, "/") + 1)..(rfind(p, ".") - 1) : p[j] # "."
    THEN <<SubSeq(p, 1, rfind(p, ".") - 1), SubSeq(p, rfind(p, "."), Len(p))>>
    ELSE <<p, <<>>>>

----------------------------------------------------------------------------
(* Python values *)

Val(k, i, s, e) == [k |-> k, i |-> i, s |-> s, e |-> e]

np_int(v)  == Val("numpy.int64", v, <<>>, <<>>)
py_int(v)  == Val("int", v, <<>>, <<>>)
np_str(s)  == Val("numpy.str_", 0, s, <<>>)
py_str(s)  == Val("str", 0, s, <<>>)
ndarray(e) == Val("ndarray", 0, <<>>, e)
tuple(e)   == Val("tuple", 0, <<>>, e)
list(e)    == Val("list", 0, <<>>, e)

is_number(v) == v.k \in {"int", "numpy.int64"}

\* isinstance(v, str): numpy.str_ is a subclass of str
is_str(v) == v.k \in {"str", "numpy.str_"}

\* v == w for two scalars
py_eq(v, w) ==
    \/ is_number(v) /\ is_number(w) /\ v.i = w.i
    \/ is_str(v) /\ is_str(w) /\ v.s = w.s

\* v in values, for a set of scalars
py_in(v, values) == \E w \in values : py_eq(v, w)

----------------------------------------------------------------------------
(* The label: PdsTableInfo and PdsColumnInfo *)

\* names.index(x), None standing for the ValueError
index(names, x) ==
    IF \E k \in 1..Len(names) : names[k] = x
    THEN Some((CHOOSE k \in 1..Len(names) :
                  /\ names[k] = x
                  /\ \A j \in 1..(k - 1) : names[j] # x) - 1)
    ELSE None

get(node, field, default) == IF field \in DOMAIN node THEN node[field] ELSE default

INTEGER_TAG == <<"I","N","T","E","G","E","R">>
REAL_TAG    == <<"R","E","A","L">>
TIME_TAG    == <<"T","I","M","E">>
DATE_TAG    == <<"D","A","T","E">>
CHAR_TAG    == <<"C","H","A","R">>

\* PdsColumnInfo.__init__: the logical type of a column; "" where the
\* constructor raises instead.
column_data_type(name, DATA_TYPE) ==
    IF str_contains(DATA_TYPE, INTEGER_TAG) THEN "int"
    ELSE IF str_contains(DATA_TYPE, REAL_TAG) THEN "float"
    ELSE IF \/ str_contains(DATA_TYPE, TIME_TAG)
            \/ str_contains(DATA_TYPE, DATE_TAG)
            \/ endswith(name, <<"_">> \o TIME_TAG)
            \/ endswith(name, <<"_">> \o DATE_TAG) THEN "time"
    ELSE IF str_contains(DATA_TYPE, CHAR_TAG) THEN "string"
    ELSE ""

\* PdsColumnInfo.__init__; invalid is a set of values, valid_range is
\* <<>> (None) or <<min, max>>.
PdsColumnInfo(node_dict, column_no, invalid, valid_range) ==
    [name           |-> node_dict.NAME,
     colno          |-> column_no,
     start_byte     |-> node_dict.START_BYTE,
     bytes          |-> node_dict.BYTES,
     items          |-> get(node_dict, "ITEMS", 1),
     item_bytes     |-> get(node_dict, "ITEM_BYTES", node_dict.BYTES),
     item_offset    |-> get(node_dict, "ITEM_OFFSET", node_dict.BYTES),
     data_type      |-> column_data_type(node_dict.NAME, node_dict.DATA_TYPE),
     valid_range    |-> IF valid_range # <<>> THEN valid_range
                        ELSE get(node_dict, "VALID_RANGE", <<>>),
     invalid_values |-> invalid]

\* what the loop over the columns raises at column j: the NameError of
\* PdsColumnInfo for an unsupported type, then the ValueError for a name
\* that an earlier column has; "" when it goes on
column_raises(cols, j) ==
    IF cols[j].data_type = "" THEN "NameError"
    ELSE IF \E l \in 1..(j - 1) : cols[l].name = cols[j].name
    THEN "ValueError: duplicated column name"
    ELSE ""

\* PdsTableInfo.__init__ on a parsed label lbl; invalid and valid_ranges are
\* the constructor's dictionaries, keyed by column name.
PdsTableInfo(lbl, invalid, valid_ranges) ==
    LET nodes == lbl.COLUMNS
        cols  == seq([j \in 1..Len(nodes) |->
                        PdsColumnInfo(nodes[j], j - 1,
                                      get(invalid, nodes[j].NAME, {}),
                                      get(valid_ranges, nodes[j].NAME, <<>>))])
        names == {cols[j].name : j \in 1..Len(cols)}
    IN  IF lbl.RECORD_TYPE # "FIXED_LENGTH"
        THEN [error |-> "IOError: PDS table does not contain fixed-length records"]
        ELSE IF \E j \in 1..Len(cols) : column_raises(cols, j) # ""
        THEN [error |-> column_raises(cols,
                           CHOOSE j \in 1..Len(cols) :
                              /\ column_raises(cols, j) # ""
                              /\ \A l \in 1..(j - 1) : column_raises(cols, l) = "")]
        ELSE [error            |-> "",
              rows             |-> lbl.ROWS,
              row_bytes        |-> lbl.ROW_BYTES,
              column_info_list |-> cols,
              column_info_dict |->
                  [nm \in names |-> cols[CHOOSE j \in 1..Len(cols) : cols[j].name = nm]]]

----------------------------------------------------------------------------
(* The PDS4 label (src/pdstable/pds4table.py): Pds4TableInfo and
   Pds4ColumnInfo.  The label dictionary is given from the file area on,
   [File |-> [file_name |-> ..], records |-> .., fields |-> ..,
    record_length |-> .., columns |-> <<..>>] with the table and record tags
   flattened; a file area is py_dict(area), several are py_list(<<areas>>),
   each a record [k, v] of the Python type and the areas.
   Not modelled: the parsing of the XML file. *)

py_dict(d) == [k |-> "dict", v |-> <<d>>]
py_list(e) == [k |-> "list", v |-> e]
py_other   == [k |-> "other", v |-> <<>>]

\* (self.data_type, self.dtype2) by PDS4 data type; scalar_func is decided by
\* data_type
PDS4_CHR_DATA_TYPE_MAPPING ==
    [t \in {"ASCII_Date_DOY", "ASCII_Date_Time_DOY", "ASCII_Date_Time_DOY_UTC",
            "ASCII_Date_Time_YMD", "ASCII_Date_Time_YMD_UTC", "ASCII_Date_YMD",
            "ASCII_Time"} |-> <<"time", "S">>]
    @@ [t \in {"ASCII_Integer", "ASCII_NonNegative_Integer",
               "ASCII_Numeric_Base2", "ASCII_Numeric_Base8",
               "ASCII_Numeric_Base16"} |-> <<"int", "int">>]
    @@ [t \in {"ASCII_Real"} |-> <<"float", "float">>]
    @@ [t \in {"ASCII_AnyURI", "ASCII_Directory_Path_Name", "ASCII_DOI",
               "ASCII_File_Name", "ASCII_File_Specification_Name", "ASCII_LID",
               "ASCII_LIDVID", "ASCII_LIDVID_LID", "ASCII_MD5_Checksum",
               "ASCII_String", "ASCII_VID", "UTF8_String"} |-> <<"string", "U">>]
    @@ [t \in {"ASCII_Boolean"} |-> <<"boolean", "bool">>]

\* Pds4ColumnInfo.__init__: the logical type of a column; "" where the
\* constructor raises IOError instead
pds4_data_type(name, data_type) ==
    IF data_type \notin DOMAIN PDS4_CHR_DATA_TYPE_MAPPING THEN ""
    ELSE IF \/ endswith(name, <<"_">> \o TIME_TAG)
            \/ endswith(name, <<"_">> \o DATE_TAG) THEN "time"
    ELSE PDS4_CHR_DATA_TYPE_MAPPING[data_type][1]

VALUED == <<"-","v","a","l","u","e","d">>

\* the places of a digit that "-valued" follows, with no line break before
\* them: where re.match(r'.*(\d)-valued.*', s) can take its group
valued_digits(s) ==
    {p \in 1..Len(s) : /\ is_digit(s[p])
                        /\ p + Len(VALUED) <= Len(s)
                        /\ SubSeq(s, p + 1, p + Len(VALUED)) = VALUED
                        /\ \A q \in 1..(p - 1) : s[q] # "\n"}

max_of(S) == CHOOSE x \in S : \A y \in S : y <= x

\* "items = int(re.match(r'.*(\d)-valued.*', self.description.strip())[1])",
\* and 1 where there is no match: the greedy ".*" leaves the group the last
\* digit that "-valued" follows
description_items(description) ==
    LET s == strip(description)
    IN  IF valued_digits(s) = {} THEN 1
        ELSE digit_value(s[max_of(valued_digits(s))])

\* int(a / b) for b > 0: the quotient truncated toward zero
int_div(a, b) == IF a >= 0 THEN a \div b ELSE -((-a) \div b)

\* "item_bytes = int((self.bytes-items+1)/items)"
pds4_item_bytes(bytes, items) == int_div(bytes - items + 1, items)

\* Pds4ColumnInfo.__init__; a table without fixed fields has start_byte and
\* bytes None and no attributes of items; [error |-> e] is the exception
\* that the division raises
Pds4ColumnInfo(node_dict, column_no, invalid, valid_range) ==
    LET items == description_items(get(node_dict, "description", <<>>))
        common ==
            [name           |-> node_dict.name,
             colno          |-> column_no,
             description    |-> get(node_dict, "description", <<>>),
             data_type      |-> pds4_data_type(node_dict.name, node_dict.data_type),
             valid_range    |-> IF valid_range # <<>> THEN valid_range
                                ELSE get(node_dict, "VALID_RANGE", <<>>),
             invalid_values |-> invalid]
    IN  IF ~({"field_location", "field_length"} \subseteq DOMAIN node_dict)
        THEN common @@ [start_byte |-> None, bytes |-> None]
        ELSE IF items = 0 THEN [error |-> "ZeroDivisionError: division by zero"]
        ELSE common @@
             [start_byte  |-> Some(node_dict.field_location),
              bytes       |-> Some(node_dict.field_length),
              items       |-> get(node_dict, "ITEMS", items),
              item_bytes  |-> get(node_dict, "ITEM_BYTES",
                                  pds4_item_bytes(node_dict.field_length, items)),
              item_offset |-> get(node_dict, "ITEM_OFFSET",
                                  pds4_item_bytes(node_dict.field_length, items) + 1)]

Target == <<"T","a","r","g","e","t">>

Target_Specific == Target \o <<"_","S","p","e","c","i","f","i","c">>

\* "for col in columns": one pass of the loop, pdscol being the column's
\* Pds4ColumnInfo.  A second 'Target' is renamed after it has been appended,
\* so that the list holds it under its new name.
pds4_add_column(acc, name, pdscol) ==
    IF "error" \in DOMAIN pdscol THEN [acc EXCEPT !.error = pdscol.error]
    ELSE IF pdscol.data_type = "" THEN [acc EXCEPT !.error = "IOError: unsupported data type"]
    ELSE IF name \in DOMAIN acc.column_info_dict /\ name # Target
    THEN [acc EXCEPT !.error = "ValueError: duplicated column name"]
    ELSE LET renamed ==
                 IF pdscol.name \in DOMAIN acc.column_info_dict /\ pdscol.name = Target
                 THEN [pdscol EXCEPT !.name = Target_Specific]
                 ELSE pdscol
         IN  [error |-> "",
              column_info_list |-> Append(acc.column_info_list, renamed),
              column_info_dict |->
                  [x \in DOMAIN acc.column_info_dict \cup {renamed.name} |->
                      IF x = renamed.name THEN renamed
                      ELSE acc.column_info_dict[x]]]

RECURSIVE pds4_columns(_, _, _, _, _)
pds4_columns(columns, invalid, valid_ranges, j, acc) ==
    IF j > Len(columns) \/ acc.error # "" THEN acc
    ELSE pds4_columns(columns, invalid, valid_ranges, j + 1,
            pds4_add_column(acc, columns[j].name,
                Pds4ColumnInfo(columns[j], columns[j].field_number,
                               get(invalid, columns[j].name, {}),
                               get(valid_ranges, columns[j].name, <<>>))))

\* an exception of Pds4TableInfo.__init__; candidates are the file names
\* that the message lists
pds4_raises(e, candidates) == [error |-> e, candidates |-> candidates]

\* from "self.header_bytes = ..." on: file_area is the area of the table
\* file, cols what the loop over its columns leaves
pds4_table(file_area, table_file_name, table_file_li, cols) ==
    IF cols.error # "" THEN pds4_raises(cols.error, <<>>)
    ELSE [error            |-> "",
          candidates       |-> <<>>,
          table_file_name  |-> table_file_name,
          table_file_li    |-> table_file_li,
          header_bytes     |-> get(file_area, "object_length", 0),
          rows             |-> file_area.records,
          columns          |-> file_area.fields,
          row_bytes        |-> IF "record_length" \in DOMAIN file_area
                               THEN file_area.record_length
                               ELSE file_area.maximum_record_length,
          fixed_length_row |-> "record_length" \in DOMAIN file_area,
          column_info_list |-> cols.column_info_list,
          column_info_dict |-> cols.column_info_dict]

pds4_area(file_area, table_file_name, table_file_li, invalid, valid_ranges) ==
    pds4_table(file_area, table_file_name, table_file_li,
               pds4_columns(file_area.columns, invalid, valid_ranges, 1,
                            [error |-> "", column_info_list |-> <<>>,
                             column_info_dict |-> <<>>]))

\* "[f['File']['file_name'] for f in file_area]"
table_names(areas) == seq([j \in 1..Len(areas) |-> areas[j].File.file_name])

NO_SUCH_TABLE_FILE == "ValueError: The table file name doesn't exist"

\* "The label file points to one table file"
pds4_one_file(file_area, invalid, valid_ranges, table_file) ==
    IF "File" \notin DOMAIN file_area
    THEN pds4_raises("IOError: Table file name was not found in PDS4 label", <<>>)
    ELSE IF table_file # None /\ table_file[1] # file_area.File.file_name
    THEN pds4_raises("ValueError: The provided table file name doesn't match",
                     <<file_area.File.file_name>>)
    ELSE pds4_area(file_area, file_area.File.file_name,
                   <<file_area.File.file_name>>, invalid, valid_ranges)

\* pds4_files without "idx = table_name_li.index(table_file)": the first
\* file area is taken
pds4_files_first(areas, invalid, valid_ranges, table_file) ==
    IF \E j \in 1..Len(areas) : "File" \notin DOMAIN areas[j]
    THEN pds4_raises("IOError: Table file name was not found in PDS4 label", <<>>)
    ELSE IF table_file = None \/ index(table_names(areas), table_file[1]) = None
    THEN pds4_raises(NO_SUCH_TABLE_FILE, table_names(areas))
    ELSE pds4_area(areas[1], table_file[1], table_names(areas), invalid,
                   valid_ranges)

\* "The label file points to multiple table files"
pds4_files(areas, invalid, valid_ranges, table_file) ==
    IF \E j \in 1..Len(areas) : "File" \notin DOMAIN areas[j]
    THEN pds4_raises("IOError: Table file name was not found in PDS4 label", <<>>)
    ELSE IF table_file = None \/ index(table_names(areas), table_file[1]) = None
    THEN pds4_raises(NO_SUCH_TABLE_FILE, table_names(areas))
    ELSE pds4_area(areas[index(table_names(areas), table_file[1])[1] + 1],
                   table_file[1], table_names(areas), invalid, valid_ranges)

\* Pds4TableInfo(label_file_path, invalid=invalid, valid_ranges=valid_ranges,
\* table_file=table_file) on the file area of the label; table_file is None
\* or Some(name)
Pds4TableInfo(file_area, invalid, valid_ranges, table_file) ==
    IF file_area.k = "dict"
    THEN pds4_one_file(file_area.v[1], invalid, valid_ranges, table_file)
    ELSE IF file_area.k = "list"
    THEN pds4_files(file_area.v, invalid, valid_ranges, table_file)
    ELSE pds4_raises("ValueError: does not contain any table file info", <<>>)

----------------------------------------------------------------------------
(* Reading the records *)

\* The lines of data, each up to and including its "\n".
RECURSIVE split_lines(_)
split_lines(data) ==
    IF Len(data) = 0 THEN <<>>
    ELSE IF \E j \in 1..Len(data) : data[j] = "\n"
    THEN LET n == CHOOSE j \in 1..Len(data) :
                      data[j] = "\n" /\ \A l \in 1..(j - 1) : data[l] # "\n"
         IN  <<SubSeq(data, 1, n)>> \o split_lines(SubSeq(data, n + 1, Len(data)))
    ELSE <<data>>

\* io readlines(hint): lines are taken until their total size exceeds hint.
RECURSIVE take_hint(_, _, _)
take_hint(lines, hint, length) ==
    IF Len(lines) = 0 THEN <<>>
    ELSE IF Len(lines[1]) > hint - length THEN <<lines[1]>>
    ELSE <<lines[1]>> \o take_hint(Tail(lines), hint, length + Len(lines[1]))

\* f.seek(pos) followed by f.readlines(hint); hint <= 0 reads to the end.
readlines(f, pos, hint) ==
    LET all == split_lines(SubSeq(f, pos + 1, Len(f)))
    IN  IF hint <= 0 THEN all ELSE take_hint(all, hint, 0)

\* load_lines without the check of the line count of a whole file
load_lines_unchecked(info, lbl, f, row_range) ==
    IF row_range = <<>>
    THEN [error |-> "", first |-> 0, rows |-> info.rows, lines |-> readlines(f, 0, 0)]
    ELSE LET count == row_range[2] - row_range[1]
             read  == readlines(f, row_range[1] * lbl.RECORD_BYTES,
                                count * lbl.RECORD_BYTES - 1)
             lines == IF Len(read) <= count THEN read ELSE SubSeq(read, 1, count)
         IN  [error |-> IF Len(lines) # count THEN "NameError" ELSE "",
              first |-> row_range[1], rows |-> count, lines |-> lines]

\* PdsTable.__init__, "Load the table data in binary": row_range is <<>>
\* (None) or <<first row, first row omitted>>.
load_lines(info, lbl, f, row_range) ==
    IF row_range = <<>>
    THEN LET lines == readlines(f, 0, 0)
         IN  [error |-> IF Len(lines) # info.rows
                        THEN "ValueError: row count mismatch" ELSE "",
              first |-> 0,
              rows  |-> info.rows,
              lines |-> lines]
    ELSE LET count == row_range[2] - row_range[1]
             read  == readlines(f, row_range[1] * lbl.RECORD_BYTES,
                                count * lbl.RECORD_BYTES - 1)
             lines == IF Len(read) <= count THEN read
                      ELSE IF count >= 0 THEN SubSeq(read, 1, count)
                      ELSE SubSeq(read, 1, Len(read) + count)
         IN  [error |-> IF Len(lines) # count THEN "NameError" ELSE "",
              first |-> row_range[1],
              rows  |-> count,
              lines |-> lines]

----------------------------------------------------------------------------
(* Decoding one column: PdsTable.__init__, "Replace each 1-D array of items
   from ASCII strings to the proper type" *)

\* table[key], then column["item_" + str(i)]: the raw text of item i
\* (from 1) of the column in one line.
item_field(info, line, i) ==
    LET field == SubSeq(line, info.start_byte, info.start_byte + info.bytes - 1)
    IN  IF info.items > 1
        THEN SubSeq(field, (i - 1) * info.item_offset + 1,
                           (i - 1) * info.item_offset + info.item_bytes)
        ELSE field

\* item < valid_range[0] or item > valid_range[1], for a number
out_of_range(v, valid_range) ==
    valid_range # <<>> /\ is_number(v) /\ (v.i < valid_range[1] \/ v.i > valid_range[2])

\* array_mask with the test against valid_range[1] left out
array_mask_no_upper(v, info) ==
    \/ py_in(v, info.invalid_values)
    \/ info.valid_range # <<>> /\ is_number(v) /\ v.i < info.valid_range[1]

\* "Determine validity mask if not already done": the mask of one entry of
\* an array of converted items
array_mask(v, info) ==
    py_in(v, info.invalid_values) \/ out_of_range(v, info.valid_range)

\* callback(item) for the callback of the column, if any: a callback is
\* [from, to], the function that returns the text to for the text from and
\* every other text as it is (from and to of the width of the field)
apply_callback(callback, raw) ==
    IF callback = None THEN raw
    ELSE IF raw = callback[1].from THEN callback[1].to
    ELSE raw

\* items[items == before] = after on an array of byte strings as wide as the
\* field, for one entry: the text assigned is cut to the width of the array
replace_text(raw, before, after) ==
    IF raw = before
    THEN SubSeq(after, 1, IF Len(after) < Len(raw) THEN Len(after) ELSE Len(raw))
    ELSE raw

\* "Apply the replacement dictionary if any pairs are strings": the pairs of
\* repdict in order, each applied to what the pairs before it left
RECURSIVE replace_strings(_, _)
replace_strings(raw, repdict) ==
    IF Len(repdict) = 0 THEN raw
    ELSE replace_strings(
            IF is_str(repdict[1].before) /\ is_str(repdict[1].after)
            THEN replace_text(raw, repdict[1].before.s, repdict[1].after.s)
            ELSE raw,
            Tail(repdict))

\* "Apply the replacements for pairs of this type" on the converted array,
\* for one entry n: a pair with a str key selects no entry of an array of
\* integers
RECURSIVE replace_numbers(_, _)
replace_numbers(n, repdict) ==
    IF Len(repdict) = 0 THEN n
    ELSE replace_numbers(
            IF is_number(repdict[1].before) /\ is_number(repdict[1].after)
               /\ repdict[1].before.i = n
            THEN repdict[1].after.i
            ELSE n,
            Tail(repdict))

\* repdict.get(item, item)
dict_get(repdict, item) ==
    IF \E j \in 1..Len(repdict) : py_eq(repdict[j].before, item)
    THEN repdict[CHOOSE j \in 1..Len(repdict) : py_eq(repdict[j].before, item)].after
    ELSE item

\* "Process row by row": one row of the fallback loop. failed: func(item)
\* raised; raised: the validity tests themselves raised (a str is compared
\* with the numbers of valid_range).
fallback_row(raw, info, strip_it, repdict) ==
    IF int(raw).ok
    THEN [item   |-> dict_get(repdict, py_int(int(raw).v)),
          failed |-> FALSE,
          raised |-> FALSE,
          mask   |-> \/ py_in(dict_get(repdict, py_int(int(raw).v)),
                              info.invalid_values)
                     \/ out_of_range(dict_get(repdict, py_int(int(raw).v)),
                                     info.valid_range)]
    ELSE [item   |-> py_str(IF strip_it THEN strip(raw) ELSE raw),
          failed |-> TRUE,
          raised |-> info.valid_range # <<>>,
          mask   |-> TRUE]

\* array_items with the masked entries of the array filled with 0
array_items_filled(items, info) ==
    [items    |-> seq([r \in 1..Len(items) |->
                         IF array_mask(items[r], info)
                         THEN [items[r] EXCEPT !.i = 0] ELSE items[r]]),
     mask     |-> seq([r \in 1..Len(items) |-> array_mask(items[r], info)]),
     is_array |-> TRUE,
     failures |-> <<>>,
     raised   |-> FALSE]

\* the array items of a bulk conversion, with their validity mask
array_items(items, info) ==
    [items    |-> items,
     mask     |-> seq([r \in 1..Len(items) |-> array_mask(items[r], info)]),
     is_array |-> TRUE,
     failures |-> <<>>,
     raised   |-> FALSE]

\* new_items of the row-by-row conversion, each being the outcome of one row
list_items(each) ==
    [items    |-> seq([r \in 1..Len(each) |-> each[r].item]),
     mask     |-> seq([r \in 1..Len(each) |-> each[r].mask]),
     is_array |-> FALSE,
     failures |-> SelectSeq(each, LAMBDA x : x.failed),
     raised   |-> \E r \in 1..Len(each) : each[r].raised]

\* The body of "for items in column_items" from "Handle the data type" on,
\* for the texts (one per row) of one item of a column.
convert_texts(texts, info, strip_it, repdict) ==
    IF info.data_type = "string"
    THEN array_items(seq([r \in 1..Len(texts) |->
                            np_str(IF strip_it THEN strip(texts[r]) ELSE texts[r])]),
                     info)
    ELSE IF \A r \in 1..Len(texts) : int(texts[r]).ok
    THEN array_items(seq([r \in 1..Len(texts) |->
                            np_int(replace_numbers(int(texts[r]).v, repdict))]),
                     info)
    ELSE list_items(seq([r \in 1..Len(texts) |->
                           fallback_row(texts[r], info, strip_it, repdict)]))

\* convert_items with the string pairs applied before the callback
convert_items_replace_first(raws, info, strip_it, callback, repdict) ==
    convert_texts(seq([r \in 1..Len(raws) |->
                         apply_callback(callback,
                                        replace_strings(raws[r], repdict))]),
                  info, strip_it, repdict)

\* the callback, then the string pairs of the replacement dictionary, then
\* the conversion
convert_items(raws, info, strip_it, callback, repdict) ==
    convert_texts(seq([r \in 1..Len(raws) |->
                         replace_strings(apply_callback(callback, raws[r]),
                                         repdict)]),
                  info, strip_it, repdict)

RECURSIVE concat(_)
concat(seqs) == IF Len(seqs) = 0 THEN <<>> ELSE seqs[1] \o concat(Tail(seqs))

\* assemble_column with np.all in place of np.any for the merged mask
assemble_column_all_items(info, n, merge_masks, conv, failures) ==
    [raised |-> \E i \in 1..Len(conv) : conv[i].raised,
     values |->
        IF Len(conv) = 1 THEN conv[1].items
        ELSE seq([r \in 1..n |->
                IF (\A i \in 1..Len(conv) : conv[i].is_array)
                   /\ info.data_type # "string"
                THEN ndarray(seq([i \in 1..Len(conv) |-> conv[i].items[r]]))
                ELSE tuple(seq([i \in 1..Len(conv) |-> conv[i].items[r]]))]),
     masks |->
        IF Len(conv) = 1 THEN seq([r \in 1..n |-> <<conv[1].mask[r]>>])
        ELSE IF merge_masks
        THEN seq([r \in 1..n |-> <<\A i \in 1..Len(conv) : conv[i].mask[r]>>])
        ELSE seq([r \in 1..n |-> seq([i \in 1..Len(conv) |-> conv[i].mask[r]])]),
     warning |->
        IF Len(failures) = 0 THEN <<>>
        ELSE <<[data_type     |-> info.data_type,
                name          |-> info.name,
                error_count   |-> Len(failures),
                error_example |-> strip(failures[1].item.s)]>>]

\* "Swap indices for multiple items" and the warning: the column made of
\* conv, the converted items of each item position, for n rows
assemble_column(info, n, merge_masks, conv, failures) ==
    [raised |-> \E i \in 1..Len(conv) : conv[i].raised,
     values |->
        IF Len(conv) = 1 THEN conv[1].items
        ELSE seq([r \in 1..n |->
                IF (\A i \in 1..Len(conv) : conv[i].is_array)
                   /\ info.data_type # "string"
                THEN ndarray(seq([i \in 1..Len(conv) |-> conv[i].items[r]]))
                ELSE tuple(seq([i \in 1..Len(conv) |-> conv[i].items[r]]))]),
     masks |->
        IF Len(conv) = 1 THEN seq([r \in 1..n |-> <<conv[1].mask[r]>>])
        ELSE IF merge_masks
        THEN seq([r \in 1..n |-> <<\E i \in 1..Len(conv) : conv[i].mask[r]>>])
        ELSE seq([r \in 1..n |-> seq([i \in 1..Len(conv) |-> conv[i].mask[r]])]),
     warning |->
        IF Len(failures) = 0 THEN <<>>
        ELSE <<[data_type     |-> info.data_type,
                name          |-> info.name,
                error_count   |-> Len(failures),
                error_example |-> strip(failures[1].item.s)]>>]

\* the failed rows of every item position, in the order met
all_failures(info, n, merge_masks, conv) ==
    assemble_column(info, n, merge_masks, conv,
                    concat(seq([i \in 1..Len(conv) |-> conv[i].failures])))

\* One pass of "for key in self.keys": the values, masks and warning of the
\* column info over the lines read.
decode_column(info, lines, merge_masks, strip_it, callback, repdict) ==
    all_failures(info, Len(lines), merge_masks,
        seq([i \in 1..(IF info.items > 1 THEN info.items ELSE 1) |->
                convert_items(seq([r \in 1..Len(lines) |->
                                      item_field(info, lines[r], i)]),
                              info, strip_it, callback, repdict)]))

----------------------------------------------------------------------------
(* PdsTable.__init__ *)

no_table(e) ==
    [error |-> e, first |-> -1, rows |-> -1, keys |-> <<>>,
     column_values |-> <<>>, column_masks |-> <<>>, warnings |-> <<>>]

\* warnings.warn is called at the end of each pass of "for key in
\* self.keys": the warnings of the columns decoded before the first one whose
\* decoding raised.
warned_before_raise(cols) ==
    LET stop == CHOOSE j \in 1..Len(cols) :
                    cols[j].raised /\ \A k \in 1..(j - 1) : ~cols[k].raised
    IN  concat(seq([j \in 1..(stop - 1) |-> cols[j].warning]))

\* "Save ... tables": the table of the columns cols decoded for table_keys
table_of_columns(table_keys, loaded, cols) ==
    IF \E j \in 1..Len(cols) : cols[j].raised
    THEN [no_table("TypeError") EXCEPT !.warnings = warned_before_raise(cols)]
    ELSE [error         |-> "",
          first         |-> loaded.first,
          rows          |-> loaded.rows,
          keys          |-> table_keys,
          column_values |->
              [nm \in {table_keys[j] : j \in 1..Len(table_keys)} |->
                  cols[CHOOSE j \in 1..Len(table_keys) : table_keys[j] = nm].values],
          column_masks  |->
              [nm \in {table_keys[j] : j \in 1..Len(table_keys)} |->
                  cols[CHOOSE j \in 1..Len(table_keys) : table_keys[j] = nm].masks],
          warnings      |->
              concat(seq([j \in 1..Len(cols) |-> cols[j].warning]))]

\* the constructor from the records read: loaded is what load_lines returns
table_of_lines(info, table_keys, loaded, a) ==
    IF loaded.error # "" THEN no_table(loaded.error)
    ELSE IF \E r \in 1..Len(loaded.lines) : Len(loaded.lines[r]) # info.row_bytes
    THEN no_table("ValueError: Error in PDS3 row description")
    ELSE IF \E j \in 1..Len(table_keys) :
                table_keys[j] \notin DOMAIN info.column_info_dict
    THEN no_table("KeyError")
    ELSE table_of_columns(table_keys, loaded,
            seq([j \in 1..Len(table_keys) |->
                    decode_column(info.column_info_dict[table_keys[j]],
                                  loaded.lines, a.merge_masks, TRUE,
                                  IF table_keys[j] \in DOMAIN a.callbacks
                                  THEN Some(a.callbacks[table_keys[j]])
                                  ELSE None,
                                  get(a.replacements, table_keys[j], <<>>))]))

\* the constructor from the table description: info is what PdsTableInfo
\* returns
table_of_info(info, lbl, f, a) ==
    IF info.error # "" THEN no_table(info.error)
    ELSE table_of_lines(info,
            IF Len(a.columns) = 0
            THEN seq([j \in 1..Len(info.column_info_list) |->
                         info.column_info_list[j].name])
            ELSE a.columns,
            load_lines(info, lbl, f, a.row_range),
            a)

\* PdsTable(label_file, columns=a.columns, callbacks=a.callbacks,
\* replacements=a.replacements, invalid=a.invalid,
\* valid_ranges=a.valid_ranges, merge_masks=a.merge_masks,
\* row_range=a.row_range) on the label lbl and the file bytes f.
PdsTable(lbl, f, a) ==
    table_of_info(PdsTableInfo(lbl, a.invalid, a.valid_ranges), lbl, f, a)

no_result == [op |-> "", ok |-> TRUE]

\* the attributes the constructor leaves, t being what PdsTable returns
store_table(t) ==
    /\ pc' = IF t.error = "" THEN "ready" ELSE "failed"
    /\ error' = t.error
    /\ first' = t.first
    /\ rows' = t.rows
    /\ keys' = t.keys
    /\ column_values' = t.column_values
    /\ column_masks' = t.column_masks
    /\ warnings' = t.warnings

Construct ==
    /\ pc = "new"
    /\ store_table(PdsTable(label, file, args))
    /\ UNCHANGED <<label, file, args, callers, _dicts_by_row, row_dict_builds, result,
                   volume_vars, filespec_vars, index_vars>>

----------------------------------------------------------------------------
(* Row dictionaries: lowercase_value and PdsTable.dicts_by_row *)

MASK_SUFFIX  == <<"_","m","a","s","k">>
LOWER_SUFFIX == <<"_","l","o","w","e","r">>

lowercase_value(value) ==
    IF is_str(value) THEN py_str(lower(value.s))
    ELSE IF value.k = "tuple"
    THEN list(seq([j \in 1..Len(value.e) |->
                      IF value.e[j].k = "str" THEN py_str(lower(value.e[j].s))
                      ELSE value.e[j]]))
    ELSE IF value.k = "ndarray"
    THEN ndarray(seq([j \in 1..Len(value.e) |->
                         IF is_str(value.e[j]) THEN np_str(lower(value.e[j].s))
                         ELSE value.e[j]]))
    ELSE value

\* the assignments row_dict[...] = ... of one pass of "for key in set(...)",
\* in the order of the code
row_dict_items(key, value, mask, lowercase) ==
    LET key_lc   == lower(key)
        value_lc == lowercase_value(value)
    IN  <<<<key, value>>, <<key \o MASK_SUFFIX, mask>>>>
        \o (IF lowercase[1]
            THEN <<<<key_lc, value>>, <<key_lc \o MASK_SUFFIX, mask>>>>
            ELSE <<>>)
        \o (IF lowercase[2]
            THEN <<<<key \o LOWER_SUFFIX, value_lc>>>>
                 \o (IF lowercase[1]
                     THEN <<<<key_lc \o LOWER_SUFFIX, value_lc>>>> ELSE <<>>)
            ELSE <<>>)

\* the dictionary that results from the assignments items, made in order
RECURSIVE dict_of(_)
dict_of(items) ==
    IF Len(items) = 0 THEN <<>>
    ELSE LET last == items[Len(items)]
             rest == dict_of(SubSeq(items, 1, Len(items) - 1))
         IN  [k \in DOMAIN rest \cup {last[1]} |->
                 IF k = last[1] THEN last[2] ELSE rest[k]]

\* set([column_name, column_name.replace(' ', '_')]), as a sequence
key_variants(column_name) ==
    LET underscored == replace_char(column_name, " ", "_")
    IN  IF underscored = column_name THEN <<column_name>>
        ELSE <<column_name, underscored>>

\* "For each row...": the row dictionaries of a table, or the KeyError of
\* self.column_masks[key]. values and masks are self.column_values and
\* self.column_masks, names the keys of column_values in their order.
row_dicts_of(values, masks, names, nrows, lowercase) ==
    IF nrows > 0 /\ \E j \in 1..Len(names) :
                       \E v \in 1..Len(key_variants(names[j])) :
                           key_variants(names[j])[v] \notin DOMAIN masks
    THEN [error |-> "KeyError", row_dicts |-> <<>>]
    ELSE [error |-> "",
          row_dicts |->
            seq([r \in 1..nrows |->
                dict_of(concat(seq([j \in 1..Len(names) |->
                    concat(seq([v \in 1..Len(key_variants(names[j])) |->
                        row_dict_items(key_variants(names[j])[v],
                                       values[names[j]][r],
                                       masks[key_variants(names[j])[v]][r],
                                       lowercase)]))])))])]

\* a table object right after construction: t is what PdsTable returns
Object(t) ==
    [rows |-> t.rows, keys |-> t.keys, column_values |-> t.column_values,
     column_masks |-> t.column_masks, _dicts_by_row |-> <<>>]

\* the table object of the state
Self ==
    [rows |-> rows, keys |-> keys, column_values |-> column_values,
     column_masks |-> column_masks, _dicts_by_row |-> _dicts_by_row,
     _volume_colname_index |-> _volume_colname_index,
     _volume_colname |-> _volume_colname,
     _volume_colname_lc |-> _volume_colname_lc,
     _filespec_colname_index |-> _filespec_colname_index,
     _filespec_colname |-> _filespec_colname,
     _filespec_colname_lc |-> _filespec_colname_lc,
     filespec_colname_index |-> filespec_colname_index,
     filespec_colname |-> filespec_colname,
     filespec_colname_lc |-> filespec_colname_lc,
     _rows_by_filename |-> _rows_by_filename,
     filename_keys |-> filename_keys,
     filename_keylen |-> args.filename_keylen]

\* type(lowercase) == bool is written <<b>>, a pair <<b1, b2>>
lowercase_pair(lowercase) ==
    IF Len(lowercase) = 1 THEN <<lowercase[1], lowercase[1]>> ELSE lowercase

\* cache_row_dicts with a cache that keeps the last list built only
cache_row_dicts_last_only(cache, pair, made) ==
    IF made.error # ""
    THEN [error |-> made.error, row_dicts |-> <<>>, cache |-> cache,
          built |-> FALSE]
    ELSE [error |-> "", row_dicts |-> made.row_dicts,
          cache |-> [k \in {pair} |-> made.row_dicts],
          built |-> TRUE]

\* "Cache results for later re-use": made is what row_dicts_of returns
cache_row_dicts(cache, pair, made) ==
    IF made.error # ""
    THEN [error |-> made.error, row_dicts |-> <<>>, cache |-> cache,
          built |-> FALSE]
    ELSE [error |-> "", row_dicts |-> made.row_dicts,
          cache |-> [k \in DOMAIN cache \cup {pair} |->
                        IF k = pair THEN made.row_dicts ELSE cache[k]],
          built |-> TRUE]

\* dicts_by_row without the try: every call builds the list and stores it
dicts_by_row_uncached(self, lowercase) ==
    cache_row_dicts(self._dicts_by_row, lowercase_pair(lowercase),
                    row_dicts_of(self.column_values, self.column_masks,
                                 self.keys, self.rows,
                                 lowercase_pair(lowercase)))

\* self.dicts_by_row(lowercase) on the cache self._dicts_by_row: the
\* exception or the list returned, the cache afterwards, and whether the
\* list was built.
dicts_by_row(self, lowercase) ==
    IF lowercase_pair(lowercase) \in DOMAIN self._dicts_by_row
    THEN [error |-> "",
          row_dicts |-> self._dicts_by_row[lowercase_pair(lowercase)],
          cache |-> self._dicts_by_row, built |-> FALSE]
    ELSE cache_row_dicts(self._dicts_by_row, lowercase_pair(lowercase),
                         row_dicts_of(self.column_values, self.column_masks,
                                      self.keys, self.rows,
                                      lowercase_pair(lowercase)))

count_build(builds, pair) ==
    [k \in DOMAIN builds \cup {pair} |->
        IF k = pair THEN (IF pair \in DOMAIN builds THEN builds[pair] + 1 ELSE 1)
        ELSE builds[k]]

\* the state a call leaves: out is what the operation returns, res the
\* value or exception the caller gets
returns(out, lowercase, res) ==
    /\ _dicts_by_row' = out.cache
    /\ row_dict_builds' =
          IF out.built
          THEN count_build(row_dict_builds, lowercase_pair(lowercase))
          ELSE row_dict_builds
    /\ result' = res
    /\ pc' = "returned"
    /\ UNCHANGED <<label, file, args, callers, error, table_vars, volume_vars,
                   filespec_vars, index_vars>>

dicts_by_row_returns(got, lowercase) ==
    returns(got, lowercase,
            [op |-> "dicts_by_row", ok |-> got.error = "",
             error |-> got.error, lowercase |-> lowercase,
             cached |-> got.error = "" /\ ~got.built])

DictsByRow(lowercase) ==
    /\ pc = "ready"
    /\ dicts_by_row_returns(dicts_by_row(Self, lowercase), lowercase)

----------------------------------------------------------------------------
(* Lookups: PdsTable.find_row_indices and PdsTable.find_row_index.
   params is the sequence of <<key, match_value>> of **params, substrings a
   set of keys, limit <<>> for None and <<n>> for the integer n. *)

\* "Make a list (key, value, test_substring, mask_key)"
test_info(params, substrings) ==
    seq([j \in 1..Len(params) |->
        LET key == params[j][1]
            stem == SubSeq(key, 1, Len(key) - 6)
        IN  IF endswith(key, LOWER_SUFFIX)
            THEN [key |-> key,
                  match_value |-> lowercase_value(params[j][2]),
                  test_substring |-> key \in substrings \/ stem \in substrings,
                  mask_key |-> stem \o MASK_SUFFIX]
            ELSE [key |-> key,
                  match_value |-> params[j][2],
                  test_substring |-> key \in substrings,
                  mask_key |-> key \o MASK_SUFFIX]])

\* match_value not in c: "TypeError" unless both are strings
not_in(match_value, c) ==
    IF is_str(c) /\ is_str(match_value)
    THEN IF str_contains(c.s, match_value.s) THEN "pass" ELSE "fail"
    ELSE "TypeError"

\* [... for c in column_values] followed by np.any(failures)
any_failure(outcomes) ==
    IF \E j \in 1..Len(outcomes) : outcomes[j] = "TypeError" THEN "TypeError"
    ELSE IF \E j \in 1..Len(outcomes) : outcomes[j] = "fail" THEN "fail"
    ELSE "pass"

is_iterable(v) == v.k \in {"ndarray", "tuple", "list"}

\* one pass of "Apply each test...": "pass", "fail" (match = False) or the
\* exception raised
apply_test(row_dict, t) ==
    IF t.mask_key \notin DOMAIN row_dict THEN "KeyError"
    ELSE IF \E j \in 1..Len(row_dict[t.mask_key]) : row_dict[t.mask_key][j]
    THEN "fail"
    ELSE IF t.key \notin DOMAIN row_dict THEN "KeyError"
    ELSE
    LET column_value == row_dict[t.key]
    IN  IF t.test_substring
        THEN IF is_str(column_value) THEN not_in(t.match_value, column_value)
             ELSE IF ~is_iterable(column_value) THEN "TypeError"
             ELSE any_failure(seq([j \in 1..Len(column_value.e) |->
                                     not_in(t.match_value, column_value.e[j])]))
        ELSE IF column_value.k \in {"str", "numpy.str_", "int"}
        THEN IF py_eq(t.match_value, column_value) THEN "pass" ELSE "fail"
        ELSE IF ~is_iterable(column_value) THEN "TypeError"
        ELSE any_failure(seq([j \in 1..Len(column_value.e) |->
                                IF py_eq(t.match_value, column_value.e[j])
                                THEN "pass" ELSE "fail"]))

\* the tests of one row from test j on: "pass" when the row is a match
RECURSIVE apply_tests(_, _, _)
apply_tests(row_dict, tests, j) ==
    IF j > Len(tests) THEN "pass"
    ELSE LET outcome == apply_test(row_dict, tests[j])
         IN  IF outcome = "pass" THEN apply_tests(row_dict, tests, j + 1)
             ELSE outcome

\* the limit test with > in place of >=
limit_reached_late(limit, matches) ==
    Len(limit) = 1 /\ limit[1] # 0 /\ Len(matches) > limit[1]

limit_reached(limit, matches) ==
    Len(limit) = 1 /\ limit[1] # 0 /\ Len(matches) >= limit[1]

\* "For each row in the table...", from the row dictionary k on (k counts
\* from 1, the indices appended count from 0)
RECURSIVE match_rows(_, _, _, _, _)
match_rows(row_dicts, tests, limit, k, matches) ==
    IF k > Len(row_dicts) THEN [error |-> "", matches |-> matches]
    ELSE LET outcome == apply_tests(row_dicts[k], tests, 1)
         IN  IF outcome = "pass"
             THEN IF limit_reached(limit, Append(matches, k - 1))
                  THEN [error |-> "", matches |-> Append(matches, k - 1)]
                  ELSE match_rows(row_dicts, tests, limit, k + 1,
                                  Append(matches, k - 1))
             ELSE IF outcome = "fail"
             THEN match_rows(row_dicts, tests, limit, k + 1, matches)
             ELSE [error |-> outcome, matches |-> <<>>]

\* what match_rows found, with the cache dicts_by_row left
with_cache(found, got) ==
    [error |-> found.error, matches |-> found.matches, cache |-> got.cache,
     built |-> got.built]

\* the rows matched in the row dictionaries got, which dicts_by_row returns
matches_in(got, limit, tests) ==
    IF got.error # ""
    THEN [error |-> got.error, matches |-> <<>>, cache |-> got.cache,
          built |-> got.built]
    ELSE with_cache(match_rows(got.row_dicts, tests, limit, 1, <<>>), got)

\* self.find_row_indices(lowercase, limit, substrings, **params): the
\* exception or the list returned, with the cache afterwards
find_row_indices(self, lowercase, limit, substrings, params) ==
    matches_in(dicts_by_row(self, lowercase), limit,
               test_info(params, substrings))

\* find_row_index without limit=1, returning the last match
find_row_index_last(self, lowercase, substrings, params) ==
    LET found == find_row_indices(self, lowercase, <<>>, substrings, params)
    IN  IF found.error # ""
        THEN [error |-> found.error, detail |-> <<>>, index |-> -1,
              cache |-> found.cache, built |-> found.built]
        ELSE IF Len(found.matches) > 0
        THEN [error |-> "", detail |-> <<>>,
              index |-> found.matches[Len(found.matches)],
              cache |-> found.cache, built |-> found.built]
        ELSE [error |-> "ValueError: row not found", detail |-> params,
              index |-> -1, cache |-> found.cache, built |-> found.built]

\* "if matches: return matches[0]" and the raise: found is what
\* find_row_indices returns
first_match(found, params) ==
    IF found.error # ""
    THEN [error |-> found.error, detail |-> <<>>, index |-> -1,
          cache |-> found.cache, built |-> found.built]
    ELSE IF Len(found.matches) > 0
    THEN [error |-> "", detail |-> <<>>, index |-> found.matches[1],
          cache |-> found.cache, built |-> found.built]
    ELSE [error |-> "ValueError: row not found", detail |-> params,
          index |-> -1, cache |-> found.cache, built |-> found.built]

\* self.find_row_index(lowercase, substrings, **params)
find_row_index(self, lowercase, substrings, params) ==
    first_match(find_row_indices(self, lowercase, <<1>>, substrings, params),
                params)

\* the caller has taken the value returned, or caught the exception
Return ==
    /\ pc = "returned"
    /\ pc' = "ready"
    /\ result' = no_result
    /\ UNCHANGED <<label, file, args, callers, error, table_vars, _dicts_by_row,
                   row_dict_builds, volume_vars, filespec_vars,
                   index_vars>>

find_row_indices_returns(found, lowercase, limit, substrings, params) ==
    returns(found, lowercase,
            [op |-> "find_row_indices", ok |-> found.error = "",
             error |-> found.error, lowercase |-> lowercase,
             limit |-> limit, substrings |-> substrings,
             params |-> params, matches |-> found.matches])

FindRowIndices(lowercase, limit, substrings, params) ==
    /\ pc = "ready"
    /\ find_row_indices_returns(
          find_row_indices(Self, lowercase, limit, substrings, params),
          lowercase, limit, substrings, params)

find_row_index_returns(found, lowercase, substrings, params) ==
    returns(found, lowercase,
            [op |-> "find_row_index", ok |-> found.error = "",
             error |-> found.error, lowercase |-> lowercase,
             substrings |-> substrings, params |-> params,
             detail |-> found.detail, index |-> found.index])

FindRowIndex(lowercase, substrings, params) ==
    /\ pc = "ready"
    /\ find_row_index_returns(
          find_row_index(Self, lowercase, substrings, params),
          lowercase, substrings, params)

----------------------------------------------------------------------------
----------------------------------------------------------------------------
(* Volume and file specification lookups: PdsTable.volume_column_index,
   filespec_column_index, find_row_indices_by_volume_filespec and the index
   by filename key *)

FILE_SPECIFICATION_COLUMN_NAMES ==
    <<<<"F","I","L","E","_","S","P","E","C","I","F","I","C","A","T","I","O","N","_","N","A","M","E">>,
      <<"F","I","L","E"," ","S","P","E","C","I","F","I","C","A","T","I","O","N"," ","N","A","M","E">>,
      <<"F","I","L","E","_","N","A","M","E">>,
      <<"F","I","L","E"," ","N","A","M","E">>,
      <<"F","I","L","E","N","A","M","E">>,
      <<"P","R","O","D","U","C","T","_","I","D">>,
      <<"P","R","O","D","U","C","T"," ","I","D">>,
      <<"S","T","S","C","I","_","G","R","O","U","P","_","I","D">>>>

FILE_SPECIFICATION_COLUMN_NAMES_lc ==
    seq([x \in 1..Len(FILE_SPECIFICATION_COLUMN_NAMES) |->
            lower(FILE_SPECIFICATION_COLUMN_NAMES[x])])

VOLUME_ID_COLUMN_NAMES ==
    <<<<"V","O","L","U","M","E","_","I","D">>,
      <<"V","O","L","U","M","E"," ","I","D">>,
      <<"V","O","L","U","M","E","_","N","A","M","E">>,
      <<"V","O","L","U","M","E"," ","N","A","M","E">>>>

VOLUME_ID_COLUMN_NAMES_lc ==
    seq([x \in 1..Len(VOLUME_ID_COLUMN_NAMES) |->
            lower(VOLUME_ID_COLUMN_NAMES[x])])

\* self.keys_lc
keys_lc(names) == seq([k \in 1..Len(names) |-> lower(names[k])])

\* "for guess in ...: if guess in self.keys_lc: k = self.keys_lc.index(guess)":
\* <<k, guess>> of the first guess found from position g on, None
\* when the loop ends
RECURSIVE first_guess(_, _, _)
first_guess(guesses, names_lc, g) ==
    IF g > Len(guesses) THEN None
    ELSE IF index(names_lc, guesses[g]) # None
    THEN Some(<<index(names_lc, guesses[g])[1], guesses[g]>>)
    ELSE first_guess(guesses, names_lc, g + 1)

\* the first call of volume_column_index: found is what the loop found
volume_column_found(found, names) ==
    IF found = None
    THEN [value |-> Some(-1), _volume_colname_index |-> Some(-1),
          _volume_colname |-> Some(<<>>), _volume_colname_lc |-> Some(<<>>)]
    ELSE [value |-> Some(found[1][1]),
          _volume_colname_index |-> Some(found[1][1]),
          _volume_colname |-> Some(names[found[1][1] + 1]),
          _volume_colname_lc |-> Some(found[1][2])]

\* self.volume_column_index(): the value returned and the attributes left
volume_column_index(self) ==
    IF self._volume_colname_index = None
    THEN volume_column_found(
            first_guess(VOLUME_ID_COLUMN_NAMES_lc, keys_lc(self.keys), 1),
            self.keys)
    ELSE [value |-> self._volume_colname_index,
          _volume_colname_index |-> self._volume_colname_index,
          _volume_colname |-> self._volume_colname,
          _volume_colname_lc |-> self._volume_colname_lc]

\* the first call of filespec_column_index: the defaults go to the
\* attributes without underscore, the column found to those with it, and
\* the value after the loop is self._filespec_colname_index
filespec_column_found(found, names, self) ==
    IF found = None
    THEN [value |-> self._filespec_colname_index,
          _filespec_colname_index |-> self._filespec_colname_index,
          _filespec_colname |-> self._filespec_colname,
          _filespec_colname_lc |-> self._filespec_colname_lc,
          filespec_colname_index |-> Some(-1),
          filespec_colname |-> Some(<<>>),
          filespec_colname_lc |-> Some(<<>>)]
    ELSE [value |-> Some(found[1][1]),
          _filespec_colname_index |-> Some(found[1][1]),
          _filespec_colname |-> Some(names[found[1][1] + 1]),
          _filespec_colname_lc |-> Some(found[1][2]),
          filespec_colname_index |-> Some(-1),
          filespec_colname |-> Some(<<>>),
          filespec_colname_lc |-> Some(<<>>)]

\* self.filespec_column_index(): the value returned and the attributes left
filespec_column_index(self) ==
    IF self._filespec_colname_index = None
    THEN filespec_column_found(
            first_guess(FILE_SPECIFICATION_COLUMN_NAMES_lc,
                        keys_lc(self.keys), 1),
            self.keys, self)
    ELSE [value |-> self._filespec_colname_index,
          _filespec_colname_index |-> self._filespec_colname_index,
          _filespec_colname |-> self._filespec_colname,
          _filespec_colname_lc |-> self._filespec_colname_lc,
          filespec_colname_index |-> self.filespec_colname_index,
          filespec_colname |-> self.filespec_colname,
          filespec_colname_lc |-> self.filespec_colname_lc]

\* the attributes a call of volume_column_index leaves
store_volume(out) ==
    /\ _volume_colname_index' = out._volume_colname_index
    /\ _volume_colname' = out._volume_colname
    /\ _volume_colname_lc' = out._volume_colname_lc

\* the attributes a call of filespec_column_index leaves
store_filespec(out) ==
    /\ _filespec_colname_index' = out._filespec_colname_index
    /\ _filespec_colname' = out._filespec_colname
    /\ _filespec_colname_lc' = out._filespec_colname_lc
    /\ filespec_colname_index' = out.filespec_colname_index
    /\ filespec_colname' = out.filespec_colname
    /\ filespec_colname_lc' = out.filespec_colname_lc

volume_column_index_returns(out) ==
    /\ store_volume(out)
    /\ result' = [op |-> "volume_column_index", ok |-> TRUE,
                  value |-> out.value]
    /\ pc' = "returned"
    /\ UNCHANGED <<label, file, args, callers, error, table_vars, _dicts_by_row,
                   row_dict_builds, filespec_vars, index_vars>>

VolumeColumnIndex ==
    /\ pc = "ready"
    /\ volume_column_index_returns(volume_column_index(Self))

filespec_column_index_returns(out) ==
    /\ store_filespec(out)
    /\ result' = [op |-> "filespec_column_index", ok |-> TRUE,
                  value |-> out.value]
    /\ pc' = "returned"
    /\ UNCHANGED <<label, file, args, callers, error, table_vars, _dicts_by_row,
                   row_dict_builds, volume_vars, index_vars>>

FilespecColumnIndex ==
    /\ pc = "ready"
    /\ filespec_column_index_returns(filespec_column_index(Self))

\* the attributes of a table on which volume_column_index is not called
kept_volume(self) ==
    [_volume_colname_index |-> self._volume_colname_index,
     _volume_colname |-> self._volume_colname,
     _volume_colname_lc |-> self._volume_colname_lc]

\* the attributes of a table on which filespec_column_index is not called
kept_filespec(self) ==
    [_filespec_colname_index |-> self._filespec_colname_index,
     _filespec_colname |-> self._filespec_colname,
     _filespec_colname_lc |-> self._filespec_colname_lc,
     filespec_colname_index |-> self.filespec_colname_index,
     filespec_colname |-> self.filespec_colname,
     filespec_colname_lc |-> self.filespec_colname_lc]

\* "Convert to VMS format for really old indices" and "Strip away the
\* directory path if not present"
directory_form(filespec, example) ==
    IF str_contains(example, <<"[">>)
    THEN <<"[">>
         \o join(<<".">>, SubSeq(split(filespec, "/"), 1,
                                 Len(split(filespec, "/")) - 1))
         \o <<"]">> \o split(filespec, "/")[Len(split(filespec, "/"))]
    ELSE IF ~str_contains(example, <<"/">>) THEN basename(filespec)
    ELSE filespec

\* the file specification searched for: "Copy the extension of the example"
\* and filespec.lower()
search_filespec(filespec, example, substring) ==
    lower(splitext(directory_form(filespec, example))[1]
          \o (IF substring THEN <<>> ELSE splitext(example)[2]))

\* the keyword arguments of the search: filespec_key is filespec_colname,
\* volume_key is volume_colname
search_params(filespec_key, filespec, volume_key, volume_id) ==
    IF volume_key # <<>> /\ volume_id # <<>>
    THEN <<<<filespec_key, py_str(filespec)>>,
           <<volume_key, py_str(volume_id)>>>>
    ELSE <<<<filespec_key, py_str(filespec)>>>>

\* what a volume and file specification lookup leaves: found is what
\* find_row_indices returns, vol and fs are the attributes
with_columns(found, vol, fs, params) ==
    [error |-> found.error, matches |-> found.matches,
     cache |-> found.cache, built |-> found.built, vol |-> vol, fs |-> fs,
     params |-> params]

\* an exception raised before the search
raised(e, got, vol, fs) ==
    [error |-> e, matches |-> <<>>, cache |-> got.cache, built |-> got.built,
     vol |-> vol, fs |-> fs, params |-> <<>>]

\* "OK now search"
search(got, vol, fs, params, substrings, limit) ==
    with_columns(matches_in(got, limit, test_info(params, substrings)),
                 vol, fs, params)

\* from "if self._volume_colname is None" on: vol and fs are what
\* volume_column_index and filespec_column_index return
search_columns(got, vol, fs, volume_id, filespec, limit, substring) ==
    IF fs._filespec_colname_lc = None
    THEN raised("ValueError: FILE SPECIFICATION NAME column not found",
                got, vol, fs)
    ELSE search(got, vol, fs,
            search_params(
                fs._filespec_colname_lc[1] \o LOWER_SUFFIX,
                search_filespec(filespec,
                    got.row_dicts[1][fs._filespec_colname_lc[1]].s, substring),
                IF vol._volume_colname = None THEN <<>>
                ELSE vol._volume_colname_lc[1] \o LOWER_SUFFIX,
                lower(volume_id)),
            IF substring THEN {fs._filespec_colname_lc[1] \o LOWER_SUFFIX}
            ELSE {},
            limit)

\* from "keys = dicts_by_row[0].keys()" on: got is what dicts_by_row
\* returns, volume_id and filespec are the two after "if filespec is None"
by_volume_filespec(self, got, volume_id, filespec, limit, substring) ==
    IF got.error # "" THEN raised(got.error, got, kept_volume(self),
                                  kept_filespec(self))
    ELSE IF Len(got.row_dicts) = 0
    THEN raised("IndexError", got, kept_volume(self), kept_filespec(self))
    ELSE search_columns(got, volume_column_index(self),
                        filespec_column_index(self), volume_id, filespec,
                        limit, substring)

\* self.find_row_indices_by_volume_filespec(volume_id, filespec, limit,
\* substring), filespec being None or Some(text): the exception or the list
\* returned, with the cache and the attributes afterwards
find_row_indices_by_volume_filespec(self, volume_id, filespec, limit, substring) ==
    by_volume_filespec(self, dicts_by_row(self, <<TRUE, TRUE>>),
                       IF filespec = None THEN <<>> ELSE volume_id,
                       IF filespec = None THEN volume_id ELSE filespec[1],
                       limit, substring)

\* the state a volume and file specification lookup leaves
columns_return(out, res) ==
    /\ _dicts_by_row' = out.cache
    /\ row_dict_builds' =
          IF out.built THEN count_build(row_dict_builds, <<TRUE, TRUE>>)
          ELSE row_dict_builds
    /\ store_volume(out.vol)
    /\ store_filespec(out.fs)
    /\ result' = res
    /\ pc' = "returned"
    /\ UNCHANGED <<label, file, args, callers, error, table_vars, index_vars>>

find_row_indices_by_volume_filespec_returns(out, volume_id, filespec, limit, substring) ==
    columns_return(out,
        [op |-> "find_row_indices_by_volume_filespec", ok |-> out.error = "",
         error |-> out.error, volume_id |-> volume_id, filespec |-> filespec,
         limit |-> limit, substring |-> substring, params |-> out.params,
         matches |-> out.matches])

FindRowIndicesByVolumeFilespec(volume_id, filespec, limit, substring) ==
    /\ pc = "ready"
    /\ find_row_indices_by_volume_filespec_returns(
          find_row_indices_by_volume_filespec(Self, volume_id, filespec,
                                              limit, substring),
          volume_id, filespec, limit, substring)

\* "if indices: return indices[0]" and the three raises of 'row not found':
\* out is what find_row_indices_by_volume_filespec returns with limit=1
first_index(out) ==
    IF out.error # "" THEN [out EXCEPT !.matches = <<>>] @@ [index |-> -1]
    ELSE IF Len(out.matches) > 0 THEN out @@ [index |-> out.matches[1]]
    ELSE [out EXCEPT !.error = "ValueError: row not found"] @@ [index |-> -1]

\* self.find_row_index_by_volume_filespec(volume_id, filespec, substring)
find_row_index_by_volume_filespec(self, volume_id, filespec, substring) ==
    first_index(find_row_indices_by_volume_filespec(self, volume_id, filespec,
                                                    <<1>>, substring))

\* "[self.dicts_by_row()[k] for k in indices]": got is what dicts_by_row()
\* returns on the cache that the lookup left
rows_at(out, indices, got) ==
    [out EXCEPT !.cache = got.cache]
    @@ [rows |-> seq([j \in 1..Len(indices) |-> got.row_dicts[indices[j] + 1]]),
        built_plain |-> got.built]

\* the row dictionaries of the indices: dicts_by_row() is called once for
\* each index, and not at all when there is none
rows_of(self, out, indices) ==
    IF out.error # "" \/ Len(indices) = 0
    THEN out @@ [rows |-> <<>>, built_plain |-> FALSE]
    ELSE rows_at(out, indices,
                 dicts_by_row([self EXCEPT !._dicts_by_row = out.cache],
                              <<FALSE, FALSE>>))

\* "return [self.dicts_by_row()[k] for k in indices]"
rows_by(self, out) == rows_of(self, out, out.matches)

\* self.find_rows_by_volume_filespec(volume_id, filespec, limit, substring)
find_rows_by_volume_filespec(self, volume_id, filespec, limit, substring) ==
    rows_by(self, find_row_indices_by_volume_filespec(self, volume_id,
                                                      filespec, limit,
                                                      substring))

\* "return self.dicts_by_row()[k]"
row_by(self, out) ==
    rows_of(self, out, IF out.error = "" THEN <<out.index>> ELSE <<>>)

\* self.find_row_by_volume_filespec(volume_id, filespec, substring)
find_row_by_volume_filespec(self, volume_id, filespec, substring) ==
    row_by(self, find_row_index_by_volume_filespec(self, volume_id, filespec,
                                                   substring))

find_row_index_by_volume_filespec_returns(out, volume_id, filespec, substring) ==
    columns_return(out,
        [op |-> "find_row_index_by_volume_filespec", ok |-> out.error = "",
         error |-> out.error, volume_id |-> volume_id, filespec |-> filespec,
         substring |-> substring, index |-> out.index])

FindRowIndexByVolumeFilespec(volume_id, filespec, substring) ==
    /\ pc = "ready"
    /\ find_row_index_by_volume_filespec_returns(
          find_row_index_by_volume_filespec(Self, volume_id, filespec,
                                            substring),
          volume_id, filespec, substring)

\* the state that a lookup returning row dictionaries leaves
rows_return(out, res) ==
    /\ _dicts_by_row' = out.cache
    /\ row_dict_builds' =
          (LET counted == IF out.built
                          THEN count_build(row_dict_builds, <<TRUE, TRUE>>)
                          ELSE row_dict_builds
           IN  IF out.built_plain
               THEN count_build(counted, <<FALSE, FALSE>>)
               ELSE counted)
    /\ store_volume(out.vol)
    /\ store_filespec(out.fs)
    /\ result' = res
    /\ pc' = "returned"
    /\ UNCHANGED <<label, file, args, callers, error, table_vars, index_vars>>

find_rows_by_volume_filespec_returns(out, volume_id, filespec, limit, substring) ==
    rows_return(out,
        [op |-> "find_rows_by_volume_filespec", ok |-> out.error = "",
         error |-> out.error, volume_id |-> volume_id, filespec |-> filespec,
         limit |-> limit, substring |-> substring, rows |-> out.rows])

FindRowsByVolumeFilespec(volume_id, filespec, limit, substring) ==
    /\ pc = "ready"
    /\ find_rows_by_volume_filespec_returns(
          find_rows_by_volume_filespec(Self, volume_id, filespec, limit,
                                       substring),
          volume_id, filespec, limit, substring)

find_row_by_volume_filespec_returns(out, volume_id, filespec, substring) ==
    rows_return(out,
        [op |-> "find_row_by_volume_filespec", ok |-> out.error = "",
         error |-> out.error, volume_id |-> volume_id, filespec |-> filespec,
         substring |-> substring, rows |-> out.rows])

FindRowByVolumeFilespec(volume_id, filespec, substring) ==
    /\ pc = "ready"
    /\ find_row_by_volume_filespec_returns(
          find_row_by_volume_filespec(Self, volume_id, filespec, substring),
          volume_id, filespec, substring)

\* "if self.filename_keylen and len(key) > self.filename_keylen"
truncated(key, keylen) ==
    IF keylen # 0 /\ Len(key) > keylen THEN SubSeq(key, 1, keylen) ELSE key

\* filename_key without the splitext: the basename, truncated
filename_key_with_extension(self, filename) ==
    truncated(basename(filename), self.filename_keylen)

\* self.filename_key(filename)
filename_key(self, filename) ==
    truncated(splitext(basename(filename))[1], self.filename_keylen)

\* append_row with the lower-cased key appended to filename_keys
append_row_lowered(acc, key, k) ==
    [rows_by_filename |->
        [x \in DOMAIN acc.rows_by_filename \cup {lower(key)} |->
            IF x = lower(key)
            THEN (IF x \in DOMAIN acc.rows_by_filename
                  THEN acc.rows_by_filename[x] ELSE <<>>) \o <<k>>
            ELSE acc.rows_by_filename[x]],
     filename_keys |->
        IF lower(key) \in DOMAIN acc.rows_by_filename THEN acc.filename_keys
        ELSE Append(acc.filename_keys, lower(key)),
     error |-> ""]

\* "rows_by_filename[key_lc].append(k)", after the key has been entered on
\* its first occurrence
append_row(acc, key, k) ==
    [rows_by_filename |->
        [x \in DOMAIN acc.rows_by_filename \cup {lower(key)} |->
            IF x = lower(key)
            THEN (IF x \in DOMAIN acc.rows_by_filename
                  THEN acc.rows_by_filename[x] ELSE <<>>) \o <<k>>
            ELSE acc.rows_by_filename[x]],
     filename_keys |->
        IF lower(key) \in DOMAIN acc.rows_by_filename THEN acc.filename_keys
        ELSE Append(acc.filename_keys, key),
     error |-> ""]

\* "for k in range(len(filespecs))", from row k on (k counts from 1, the
\* indices appended count from 0); the truth value of a mask of several
\* items is a ValueError
RECURSIVE index_rows(_, _, _, _, _)
index_rows(self, filespecs, masks, k, acc) ==
    IF k > Len(filespecs) THEN acc
    ELSE IF Len(masks[k]) # 1 THEN [acc EXCEPT !.error = "ValueError"]
    ELSE IF masks[k][1] THEN index_rows(self, filespecs, masks, k + 1, acc)
    ELSE index_rows(self, filespecs, masks, k + 1,
                    append_row(acc, filename_key(self, filespecs[k].s), k - 1))

\* what index_rows_by_filename_key leaves: built is what the loop built, vol
\* and fs are what volume_column_index and filespec_column_index return
index_built(self, built, vol, fs) ==
    [error |-> built.error, vol |-> vol, fs |-> fs,
     _rows_by_filename |-> IF built.error = ""
                           THEN Some(built.rows_by_filename)
                           ELSE self._rows_by_filename,
     filename_keys |-> IF built.error = "" THEN Some(built.filename_keys)
                       ELSE self.filename_keys]

\* from "filespecs = self.column_values[self._filespec_colname]" on
index_column(self, vol, fs) ==
    IF fs._filespec_colname = None
    THEN [error |-> "KeyError", vol |-> vol, fs |-> fs,
          _rows_by_filename |-> self._rows_by_filename,
          filename_keys |-> self.filename_keys]
    ELSE index_built(self,
            index_rows(self, self.column_values[fs._filespec_colname[1]],
                       self.column_masks[fs._filespec_colname[1]], 1,
                       [rows_by_filename |-> <<>>, filename_keys |-> <<>>,
                        error |-> ""]),
            vol, fs)

\* self.index_rows_by_filename_key(): the exception, if any, and the
\* attributes afterwards
index_rows_by_filename_key(self) ==
    IF self._rows_by_filename # None
    THEN [error |-> "", vol |-> kept_volume(self), fs |-> kept_filespec(self),
          _rows_by_filename |-> self._rows_by_filename,
          filename_keys |-> self.filename_keys]
    ELSE index_column(self, volume_column_index(self),
                      filespec_column_index(self))

\* "return self._rows_by_filename[key.lower()]": indexed is what
\* index_rows_by_filename_key leaves
indexed_rows(indexed, key) ==
    IF indexed.error # "" THEN indexed @@ [indices |-> <<>>]
    ELSE IF lower(key) \in DOMAIN indexed._rows_by_filename[1]
    THEN indexed @@ [indices |-> indexed._rows_by_filename[1][lower(key)]]
    ELSE [indexed EXCEPT !.error = "KeyError"] @@ [indices |-> <<>>]

\* self.row_indices_by_filename_key(key)
row_indices_by_filename_key(self, key) ==
    indexed_rows(index_rows_by_filename_key(self), key)

\* the state a call on the index by filename key leaves
index_return(out, res) ==
    /\ store_volume(out.vol)
    /\ store_filespec(out.fs)
    /\ _rows_by_filename' = out._rows_by_filename
    /\ filename_keys' = out.filename_keys
    /\ result' = res
    /\ pc' = "returned"
    /\ UNCHANGED <<label, file, args, callers, error, table_vars, _dicts_by_row,
                   row_dict_builds>>

index_rows_by_filename_key_returns(out) ==
    index_return(out, [op |-> "index_rows_by_filename_key",
                       ok |-> out.error = "", error |-> out.error])

IndexRowsByFilenameKey ==
    /\ pc = "ready"
    /\ index_rows_by_filename_key_returns(index_rows_by_filename_key(Self))

row_indices_by_filename_key_returns(out, key) ==
    index_return(out, [op |-> "row_indices_by_filename_key",
                       ok |-> out.error = "", error |-> out.error,
                       key |-> key, indices |-> out.indices])

RowIndicesByFilenameKey(key) ==
    /\ pc = "ready"
    /\ row_indices_by_filename_key_returns(
          row_indices_by_filename_key(Self, key), key)

----------------------------------------------------------------------------
(* Inputs: a three-column table, "N" (an integer), a ring name (a string)
   and "V" (two integers), in records of 18 bytes:  NNNN,SSSSS,VV,VV\r\n  *)

MaxRows == 3

N_NAME    == <<"N">>
V_NAME    == <<"V">>
RING_NAME == <<"R","I","N","G","_","N","A","M","E">>
Ring_name == <<"R","i","n","g"," ","n","a","m","e">>

ASCII_INTEGER == <<"A","S","C","I","I","_">> \o INTEGER_TAG
CHARACTER     == CHAR_TAG \o <<"A","C","T","E","R">>

TableLabel(ring, record_type, declared_rows) ==
    [RECORD_TYPE  |-> record_type,
     RECORD_BYTES |-> 18,
     ROWS         |-> declared_rows,
     ROW_BYTES    |-> 18,
     COLUMNS      |->
        <<[NAME |-> N_NAME, START_BYTE |-> 1, BYTES |-> 4,
           DATA_TYPE |-> ASCII_INTEGER],
          [NAME |-> ring, START_BYTE |-> 6, BYTES |-> 5,
           DATA_TYPE |-> CHARACTER],
          [NAME |-> V_NAME, START_BYTE |-> 12, BYTES |-> 5, ITEMS |-> 2,
           ITEM_BYTES |-> 2, ITEM_OFFSET |-> 3, DATA_TYPE |-> ASCII_INTEGER]>>]

Record(n, s, v) == n \o <<",">> \o s \o <<",">> \o v \o <<"\r", "\n">>

N_3    == <<" "," "," ","3">>
N_M999 == <<"-","9","9","9">>
N_12   == <<" "," ","1","2">>
N_16   == <<" "," ","1","6">>
N_BAD  == <<" ","a","b","c">>

S_FOUR  == <<"f","o","u","r"," ">>
S_Four  == <<"F","o","u","r"," ">>
S_ALPHA == <<"a","l","p","h","a">>
S_UNK   == <<"U","N","K"," "," ">>

V_3_3   == <<" ","3",","," ","3">>
V_3_12  == <<" ","3",",","1","2">>
V_12_12 == <<"1","2",",","1","2">>
V_3_X   == <<" ","3",","," ","x">>

\* the table of the specification's scenario: N = 3, -999, 12, 16
ScenarioFile ==
    Record(N_3, S_FOUR, V_3_3) \o Record(N_M999, S_ALPHA, V_3_12)
    \o Record(N_12, S_Four, V_12_12) \o Record(N_16, S_ALPHA, V_3_3)

LoadRecords ==
    {Record(N_3, S_FOUR, V_3_3),   Record(N_M999, S_ALPHA, V_3_12),
     Record(N_12, S_UNK, V_12_12), Record(N_16, S_Four, V_3_3),
     Record(N_BAD, S_ALPHA, V_3_3), Record(N_3, S_FOUR, V_3_X)}

RangeRecords ==
    {Record(N_3, S_FOUR, V_3_3), Record(N_M999, S_ALPHA, V_3_12),
     Record(N_BAD, S_UNK, V_12_12)}

\* the files of at most n records drawn from records
RECURSIVE Files(_, _)
Files(records, n) ==
    IF n = 0 THEN {<<>>}
    ELSE LET shorter == Files(records, n - 1)
         IN  shorter \cup {f \o r : f \in shorter, r \in records}

NoInvalid == <<>>
Invalids  == (N_NAME :> {py_int(-999)}) @@ (RING_NAME :> {py_str(<<"U","N","K">>)})
             @@ (Ring_name :> {py_str(<<"U","N","K">>)}) @@ (V_NAME :> {py_int(12)})

NoRange == <<>>
Ranges  == (N_NAME :> <<0, 12>>) @@ (V_NAME :> <<0, 5>>)
RangeV  == (V_NAME :> <<0, 5>>)

Args(columns, invalid, valid_ranges, merge_masks, row_range) ==
    [columns |-> columns, invalid |-> invalid, valid_ranges |-> valid_ranges,
     merge_masks |-> merge_masks, row_range |-> row_range,
     filename_keylen |-> 0, callbacks |-> <<>>, replacements |-> <<>>]

RowsOf(f) == Len(split_lines(f))

InitTable ==
    /\ pc = "new"
    /\ error = ""
    /\ first = -1
    /\ rows = -1
    /\ keys = <<>>
    /\ column_values = <<>>
    /\ column_masks = <<>>
    /\ warnings = <<>>
    /\ _dicts_by_row = <<>>
    /\ row_dict_builds = <<>>
    /\ result = no_result
    /\ _volume_colname_index = None
    /\ _volume_colname = None
    /\ _volume_colname_lc = None
    /\ _filespec_colname_index = None
    /\ _filespec_colname = None
    /\ _filespec_colname_lc = None
    /\ filespec_colname_index = None
    /\ filespec_colname = None
    /\ filespec_colname_lc = None
    /\ _rows_by_filename = None
    /\ filename_keys = None
    /\ callers = [c \in Callers |-> idle]

\* whole tables, decoded under every combination of the validity options
InitDecode ==
    /\ file \in Files(LoadRecords, MaxRows) \cup {ScenarioFile}
    /\ label = TableLabel(RING_NAME, "FIXED_LENGTH", RowsOf(file))
    /\ args \in {Args(<<>>, NoInvalid, NoRange, m, <<>>) : m \in BOOLEAN}
                \cup {Args(<<>>, Invalids, v, m, <<>>) :
                         v \in {NoRange, Ranges, RangeV}, m \in BOOLEAN}
                \cup {Args(<<V_NAME, N_NAME>>, Invalids, RangeV, m, <<>>) :
                         m \in BOOLEAN}

\* row ranges, declared row counts and record types
InitRange ==
    /\ file \in Files(RangeRecords, MaxRows) \cup {ScenarioFile}
    /\ label \in {TableLabel(RING_NAME, "FIXED_LENGTH", n) :
                     n \in {RowsOf(file), RowsOf(file) + 1}}
                 \cup {TableLabel(RING_NAME, "STREAM", RowsOf(file))}
    /\ args \in {Args(<<>>, Invalids, NoRange, FALSE, rr) :
                    rr \in {<<>>} \cup {<<a, b>> : a, b \in 0..(MaxRows + 1)}}
    /\ args.row_range # <<>> => args.row_range[1] <= args.row_range[2]

InitLoad == InitTable /\ (InitDecode \/ InitRange)

NextLoad == Construct

SpecLoad == InitLoad /\ [][NextLoad]_vars

----------------------------------------------------------------------------
(* Lookups and row dictionaries on small tables *)

MaxQueryRows == 2

QueryRecords ==
    {Record(N_3, S_FOUR, V_3_3), Record(N_M999, S_Four, V_3_12),
     Record(N_BAD, S_UNK, V_3_X)}

QueryFiles == Files(QueryRecords, MaxQueryRows) \cup {ScenarioFile}

\* whole tables under both spellings of the string column's name, and row
\* ranges of the tables
InitQuery ==
    /\ file \in QueryFiles
    /\ \/ /\ label \in {TableLabel(ring, "FIXED_LENGTH", RowsOf(file)) :
                           ring \in {RING_NAME, Ring_name}}
          /\ args = Args(<<>>, Invalids, NoRange, FALSE, <<>>)
       \/ /\ label = TableLabel(RING_NAME, "FIXED_LENGTH", RowsOf(file))
          /\ args \in {Args(<<>>, Invalids, NoRange, FALSE, rr) :
                          rr \in {<<0, 1>>, <<1, MaxQueryRows>>, <<2, 4>>}}

four == <<"f","o","u","r">>
Four == <<"F","o","u","r">>
ou   == <<"o","u">>

\* the <<substrings, params>> of the lookups made, ring being the name of
\* the table's string column
Lookups(ring) ==
    {<<{}, <<>>>>,
     <<{}, <<<<N_NAME, py_int(12)>>>>>>,
     <<{}, <<<<N_NAME, py_int(-999)>>>>>>,
     <<{}, <<<<N_NAME, py_int(3)>>>>>>,
     <<{}, <<<<ring, py_str(four)>>>>>>,
     <<{}, <<<<ring, py_str(four)>>, <<N_NAME, py_int(3)>>>>>>,
     <<{}, <<<<V_NAME, py_int(3)>>>>>>,
     <<{ring}, <<<<ring, py_str(ou)>>>>>>,
     <<{}, <<<<lower(ring) \o LOWER_SUFFIX, py_str(Four)>>>>>>}

RingOf(lbl) == lbl.COLUMNS[2].NAME

LookupOptions == {<<FALSE, FALSE>>, <<TRUE, TRUE>>}
Limits        == {<<>>, <<0>>, <<1>>, <<2>>}

Init == InitTable /\ InitQuery

Next ==
    \/ Construct
    \/ \E lc \in LookupOptions, limit \in Limits, q \in Lookups(RingOf(label)) :
          FindRowIndices(lc, limit, q[1], q[2])
    \/ \E lc \in LookupOptions, q \in Lookups(RingOf(label)) :
          FindRowIndex(lc, q[1], q[2])
    \/ Return

Spec == Init /\ [][Next]_vars

\* dicts_by_row under every form of its option
DictOptions ==
    {<<FALSE>>, <<TRUE>>} \cup {<<a, b>> : a, b \in BOOLEAN}

InitDicts ==
    /\ InitTable
    /\ file \in QueryFiles
    /\ label \in {TableLabel(ring, "FIXED_LENGTH", RowsOf(file)) :
                     ring \in {RING_NAME, Ring_name}}
    /\ args \in {Args(<<>>, Invalids, NoRange, m, <<>>) : m \in BOOLEAN}

NextDicts ==
    \/ Construct
    \/ \E lc \in DictOptions : DictsByRow(lc)
    \/ Return

SpecDicts == InitDicts /\ [][NextDicts]_vars

----------------------------------------------------------------------------
(* Tables of files: three string columns in records of 16 bytes,
   VV,FFFFFFFF,PP\r\n; the names of the columns decide which of them, if
   any, holds the volume and which the file specification *)

MaxFileRows == 2

VOLUME_ID               == VOLUME_ID_COLUMN_NAMES[1]
FILE_SPECIFICATION_NAME == FILE_SPECIFICATION_COLUMN_NAMES[1]
FILE_NAME               == FILE_SPECIFICATION_COLUMN_NAMES[3]
FILENAME                == FILE_SPECIFICATION_COLUMN_NAMES[5]
PRODUCT_ID              == FILE_SPECIFICATION_COLUMN_NAMES[6]
Volume_Name             == <<"V","o","l","u","m","e","_","N","a","m","e">>
Volume_Id_spaced        == <<"V","o","l","u","m","e"," ","I","d">>
NOTE                    == <<"N","O","T","E">>
PATH                    == <<"P","A","T","H">>
TARGET                  == <<"T","A","R","G","E","T">>

FileLabel(names, declared_rows) ==
    [RECORD_TYPE  |-> "FIXED_LENGTH",
     RECORD_BYTES |-> 16,
     ROWS         |-> declared_rows,
     ROW_BYTES    |-> 16,
     COLUMNS      |->
        <<[NAME |-> names[1], START_BYTE |-> 1, BYTES |-> 2,
           DATA_TYPE |-> CHARACTER],
          [NAME |-> names[2], START_BYTE |-> 4, BYTES |-> 8,
           DATA_TYPE |-> CHARACTER],
          [NAME |-> names[3], START_BYTE |-> 13, BYTES |-> 2,
           DATA_TYPE |-> CHARACTER]>>]

\* the names of the three columns
FileColumnNames ==
    {<<VOLUME_ID, FILE_SPECIFICATION_NAME, PRODUCT_ID>>,
     <<PRODUCT_ID, Volume_Name, FILE_NAME>>,
     <<NOTE, FILENAME, TARGET>>,
     <<NOTE, PATH, TARGET>>,
     <<VOLUME_ID, PATH, TARGET>>,
     <<Volume_Id_spaced, PATH, TARGET>>}

V1 == <<"V","1">>
V2 == <<"V","2">>
P1 == <<"P","1">>
P2 == <<"P","2">>

F_DIR  == <<"d","/","A","b",".","T","A","B">>
F_BARE == <<"a","b",".","l","b","l"," "," ">>
F_VMS  == <<"[","D","]","A","b",".","T"," ">>
F_UNK  == <<"U","N","K"," "," "," "," "," ">>

\* files under one directory on two volumes, one of them unknown
DirRecords ==
    {Record(V1, F_DIR, P1), Record(V2, F_DIR, P2), Record(V1, F_UNK, P1)}

\* file names without directory and in bracketed-directory notation
FormRecords ==
    {Record(V1, F_BARE, P1), Record(V2, F_VMS, P2)}

FileTables(n) == Files(DirRecords, n) \cup Files(FormRecords, n)

\* 'UNK' is invalid in whichever column holds the file specification
FileInvalids ==
    [name \in {FILE_SPECIFICATION_NAME, FILE_NAME, FILENAME, PATH} |->
        {py_str(<<"U","N","K">>)}]

FileArgs(columns, keylen) ==
    [Args(columns, FileInvalids, NoRange, FALSE, <<>>)
        EXCEPT !.filename_keylen = keylen]

\* whole tables under every naming of the columns, with a length of the
\* filename keys and with a selection of two columns for the first
InitFiles ==
    /\ InitTable
    /\ file \in FileTables(MaxFileRows)
    /\ \/ /\ label \in {FileLabel(names, RowsOf(file)) :
                           names \in FileColumnNames}
          /\ args = FileArgs(<<>>, 0)
       \/ /\ label = FileLabel(<<VOLUME_ID, FILE_SPECIFICATION_NAME,
                                 PRODUCT_ID>>, RowsOf(file))
          /\ args \in {FileArgs(<<>>, 2), FileArgs(<<PRODUCT_ID, VOLUME_ID>>, 0)}

Q_DIR  == <<"D","/","A","B",".","X">>
Q_DEEP == <<"c","/","D","/","A","b">>

\* the <<volume_id, filespec>> of the lookups made: one argument, and two
\* with and without a volume
VolumeFilespecs ==
    {<<q, None>> : q \in {Q_DIR, Q_DEEP}}
    \cup {<<v, Some(q)>> : v \in {<<>>, <<"v","1">>}, q \in {Q_DIR, Q_DEEP}}

FileLimits == {<<>>, <<1>>}

NextFiles ==
    \/ Construct
    \/ VolumeColumnIndex
    \/ FilespecColumnIndex
    \/ \E q \in VolumeFilespecs, limit \in FileLimits, substring \in BOOLEAN :
          FindRowIndicesByVolumeFilespec(q[1], q[2], limit, substring)
    \/ \E q \in VolumeFilespecs, substring \in BOOLEAN :
          FindRowIndexByVolumeFilespec(q[1], q[2], substring)
    \/ \E q \in VolumeFilespecs, limit \in FileLimits :
          FindRowsByVolumeFilespec(q[1], q[2], limit, FALSE)
    \/ \E q \in VolumeFilespecs :
          FindRowByVolumeFilespec(q[1], q[2], FALSE)
    \/ Return

SpecFiles == InitFiles /\ [][NextFiles]_vars

\* the keys looked up in the index
FilenameKeys == {<<"A","B">>, <<"[","D","]","a","b">>, <<"[","D">>, <<"d","/","A","b">>}

NextKeys ==
    \/ Construct
    \/ IndexRowsByFilenameKey
    \/ \E key \in FilenameKeys : RowIndicesByFilenameKey(key)
    \/ Return

SpecKeys == InitFiles /\ [][NextKeys]_vars

----------------------------------------------------------------------------
(* Schemas: PDS3 and PDS4 labels of up to MaxColumns columns, resolved by
   PdsTableInfo and Pds4TableInfo *)

MaxColumns == 3

START_TIME == <<"S","T","A","R","T","_","T","I","M","E">>
STOP_DATE  == <<"S","T","O","P","_","D","A","T","E">>

\* the declared <<name, PDS4 data type, PDS3 DATA_TYPE>> of the columns; the
\* last has a type that neither dialect supports
Declarations ==
    {<<Target, "ASCII_String", CHARACTER>>,
     <<N_NAME, "ASCII_Integer", ASCII_INTEGER>>,
     <<START_TIME, "ASCII_String", CHARACTER>>,
     <<START_TIME, "ASCII_Integer", ASCII_INTEGER>>,
     <<STOP_DATE, "ASCII_Real", <<"A","S","C","I","I","_","R","E","A","L">>>>,
     <<N_NAME, "ASCII_Time", <<"T","I","M","E">>>>,
     <<N_NAME, "SignedByte", <<"B","O","O","L","E","A","N">>>>}

\* the lists of at most n declarations
RECURSIVE DeclarationLists(_)
DeclarationLists(n) ==
    IF n = 0 THEN {<<>>}
    ELSE DeclarationLists(n - 1)
         \cup {Append(l, d) : l \in DeclarationLists(n - 1), d \in Declarations}

\* the Field_Character tags of a PDS4 record
Fields4(decls) ==
    seq([j \in 1..Len(decls) |->
            [name |-> decls[j][1], field_number |-> j,
             field_location |-> 4 * j - 3, field_length |-> 3,
             data_type |-> decls[j][2]]])

\* the COLUMN objects of a PDS3 table
Columns3(decls) ==
    seq([j \in 1..Len(decls) |->
            [NAME |-> decls[j][1], START_BYTE |-> 4 * j - 3, BYTES |-> 3,
             DATA_TYPE |-> decls[j][3]]])

\* a file area with a fixed-length table
Area4(file_name, decls) ==
    [File |-> [file_name |-> file_name], records |-> 2, fields |-> Len(decls),
     record_length |-> 4 * Len(decls) + 1, columns |-> Fields4(decls)]

\* a file area with a delimited table and a header
AreaCsv(file_name, decls) ==
    [File |-> [file_name |-> file_name], object_length |-> 10, records |-> 2,
     fields |-> Len(decls), maximum_record_length |-> 40,
     field_delimiter |-> "Comma",
     columns |-> seq([j \in 1..Len(decls) |->
                        [name |-> decls[j][1], field_number |-> j,
                         data_type |-> decls[j][2]]])]

Label3(decls) ==
    [RECORD_TYPE |-> "FIXED_LENGTH", RECORD_BYTES |-> 4 * Len(decls) + 1,
     ROWS |-> 2, ROW_BYTES |-> 4 * Len(decls) + 1, COLUMNS |-> Columns3(decls)]

\* labels of one table file, and labels of two with one column each
Labels4 ==
    {py_dict(Area4("a.tab", decls)) : decls \in DeclarationLists(MaxColumns)}
    \cup {py_list(<<Area4("a.tab", <<d>>), AreaCsv("b.csv", <<e>>)>>) :
             d, e \in Declarations}
    \cup {py_list(<<[records |-> 2], Area4("a.tab", <<>>)>>),
          py_dict([records |-> 2]), py_other}

TableFiles == {None, Some("a.tab"), Some("b.csv"), Some("x.tab")}

SchemaArgs(table_file) ==
    Args(<<>>, NoInvalid, NoRange, FALSE, <<>>) @@ [table_file |-> table_file]

InitSchema ==
    /\ InitTable
    /\ file = <<>>
    /\ \/ /\ label \in Labels4
          /\ args \in {SchemaArgs(table_file) : table_file \in TableFiles}
       \/ /\ label \in {Label3(decls) : decls \in DeclarationLists(MaxColumns)}
          /\ args = SchemaArgs(None)

\* the state that a resolution leaves
resolved(what, info) ==
    /\ result' = [op |-> what, ok |-> info.error = "", info |-> info]
    /\ pc' = "resolved"
    /\ UNCHANGED <<label, file, args, callers, error, table_vars, _dicts_by_row,
                   row_dict_builds, volume_vars, filespec_vars, index_vars>>

ResolvePds4 ==
    /\ pc = "new"
    /\ "k" \in DOMAIN label
    /\ resolved("Pds4TableInfo",
                Pds4TableInfo(label, args.invalid, args.valid_ranges,
                              args.table_file))

ResolvePds3 ==
    /\ pc = "new"
    /\ "COLUMNS" \in DOMAIN label
    /\ resolved("PdsTableInfo",
                PdsTableInfo(label, args.invalid, args.valid_ranges))

NextSchema == ResolvePds4 \/ ResolvePds3

SpecSchema == InitSchema /\ [][NextSchema]_vars

----------------------------------------------------------------------------
(* Construction: claims C1 to C5 *)

\* the resolved label of the table under construction
Info == PdsTableInfo(label, args.invalid, args.valid_ranges)

ColumnInfoOf(key) == Info.column_info_dict[key]

\* v is no invalid value of the column and lies in its valid range, if any
IsValidValue(v, info) ==
    /\ \A w \in info.invalid_values : ~py_eq(v, w)
    /\ info.valid_range # <<>> =>
          /\ is_number(v)
          /\ info.valid_range[1] <= v.i
          /\ v.i <= info.valid_range[2]

\* the entries of a row's value that a False at position p of its mask covers
CoveredBy(v, mask, p) ==
    IF Len(v.e) = 0 THEN {v}
    ELSE IF Len(mask) = 1 THEN {v.e[i] : i \in 1..Len(v.e)}
    ELSE {v.e[p]}

\* C1: after construction, wherever a mask entry is False the stored value is
\* no member of the column's invalid_values and lies within its valid_range,
\* on the array path and on the row-by-row path alike.
C1_UnmaskedIsValid ==
    pc = "ready" =>
        \A j \in 1..Len(keys) : \A r \in 1..rows :
            LET v    == column_values[keys[j]][r]
                mask == column_masks[keys[j]][r]
            IN  \A p \in 1..Len(mask) :
                    ~mask[p] =>
                        \A x \in CoveredBy(v, mask, p) :
                            IsValidValue(x, ColumnInfoOf(keys[j]))

\* N went row by row (it has a warning) and has an unmasked row and a row
\* masked for its invalid value only; V went through the array path with a
\* valid range, and has an item in range unmasked and one out of range masked.
C1_Witness ==
    /\ pc = "ready"
    /\ \E w \in 1..Len(warnings) : warnings[w].name = N_NAME
    /\ ColumnInfoOf(N_NAME).invalid_values # {}
    /\ \E r \in 1..rows : ~column_masks[N_NAME][r][1]
    /\ \E r \in 1..rows : /\ column_masks[N_NAME][r][1]
                          /\ column_values[N_NAME][r].k = "int"
    /\ ColumnInfoOf(V_NAME).valid_range # <<>>
    /\ \E r \in 1..rows : /\ column_values[V_NAME][r].k = "ndarray"
                          /\ column_masks[V_NAME][r] = <<FALSE, TRUE>>
                          /\ column_values[V_NAME][r].e[2].i > 5

FewerRecordsThanExpected ==
    IF args.row_range = <<>> THEN RowsOf(file) # label.ROWS
    ELSE RowsOf(file) < args.row_range[2]

\* C4: a row_range on a table without fixed-length rows fails with the
\* ValueError that says a row range needs fixed-length rows.
C4_RowRangeNeedsFixedLength ==
    (pc # "new" /\ label.RECORD_TYPE # "FIXED_LENGTH" /\ args.row_range # <<>>) =>
        /\ pc = "failed"
        /\ error = "ValueError: cannot specify row range for the table without fixed length rows"

\* C5: when the records read are not as many as expected, construction fails
\* with the row-count-mismatch ValueError, on a whole file and on a sub-range.
C5_RowCountMismatch ==
    (pc # "new" /\ label.RECORD_TYPE = "FIXED_LENGTH" /\ FewerRecordsThanExpected) =>
        /\ pc = "failed"
        /\ error = "ValueError: row count mismatch"

\* the part of C5 the code keeps: a whole-file read of the wrong length
C5_WholeFileMismatch ==
    (pc # "new" /\ label.RECORD_TYPE = "FIXED_LENGTH" /\ args.row_range = <<>>
        /\ RowsOf(file) # label.ROWS) =>
        /\ pc = "failed"
        /\ error = "ValueError: row count mismatch"

----------------------------------------------------------------------------
(* Lookups and row dictionaries: claims C3 and C6 to C10 *)

ItemsOf(v) == IF is_iterable(v) THEN v.e ELSE <<v>>

SameValue(v, w) ==
    /\ Len(ItemsOf(v)) = Len(ItemsOf(w))
    /\ \A j \in 1..Len(ItemsOf(v)) :
          \/ py_eq(ItemsOf(v)[j], ItemsOf(w)[j])
          \/ ItemsOf(v)[j] = ItemsOf(w)[j]

\* the table built over the whole file with the other options unchanged
FullTable == PdsTable(label, file, [args EXCEPT !.row_range = <<>>])

InRowRange ==
    /\ pc \in {"ready", "returned"}
    /\ args.row_range # <<>>
    /\ label.RECORD_TYPE = "FIXED_LENGTH"
    /\ args.row_range[1] <= args.row_range[2]
    /\ args.row_range[2] <= label.ROWS
    /\ FullTable.error = ""

\* Row i of a table built over a row range holds the values and the masks
\* of row a+i of the table built over the whole file.
SubRangeRowsAreFullRows ==
    InRowRange =>
        \A key \in DOMAIN column_values : \A i \in 1..rows :
            /\ SameValue(column_values[key][i],
                         FullTable.column_values[key][args.row_range[1] + i])
            /\ column_masks[key][i] =
                  FullTable.column_masks[key][args.row_range[1] + i]

\* the indices of matches that fall in rows a..b-1, counted from a
RelativeTo(matches, a, b) ==
    LET inside == SelectSeq(matches, LAMBDA i : a <= i /\ i < b)
    IN  seq([j \in 1..Len(inside) |-> inside[j] - a])

\* C3: for a fixed-length table and a row range (a, b) within the declared
\* rows, row i of the sub-range table holds the values and masks of row a+i
\* of the table over the whole file, and a lookup on the sub-range table
\* returns the indices the same lookup finds in rows a..b-1 of the whole
\* table, counted from a.
C3_SubRangeEqualsFull ==
    /\ SubRangeRowsAreFullRows
    /\ (/\ InRowRange
        /\ pc = "returned"
        /\ result.op = "find_row_indices"
        /\ result.limit = <<>>)
       => LET whole == find_row_indices(Object(FullTable), result.lowercase,
                                        <<>>, result.substrings, result.params)
          IN  whole.error = ""
              => /\ result.ok
                 /\ result.matches = RelativeTo(whole.matches,
                                                args.row_range[1],
                                                args.row_range[2])

\* row k (counted from 1) passes the predicate col = value: its mask is
\* entirely False and every item equals value, or contains it for a column
\* listed in substrings
Satisfies(k, col, value, contains) ==
    /\ \A j \in 1..Len(column_masks[col][k]) : ~column_masks[col][k][j]
    /\ \A j \in 1..Len(ItemsOf(column_values[col][k])) :
          LET item == ItemsOf(column_values[col][k])[j]
          IN  IF contains
              THEN is_str(item) /\ is_str(value) /\ str_contains(item.s, value.s)
              ELSE py_eq(value, item)

MatchingRows(params, substrings) ==
    SelectSeq(seq([k \in 1..rows |-> k - 1]),
              LAMBDA i : \A j \in 1..Len(params) :
                  Satisfies(i + 1, params[j][1], params[j][2],
                            params[j][1] \in substrings))

OnColumns(params) ==
    \A j \in 1..Len(params) : params[j][1] \in DOMAIN column_values

\* C6: find_row_indices(**predicates) returns, in ascending order, exactly
\* the indices of the rows in which every predicate column is unmasked and
\* holds (or, listed in substrings, contains) the predicate's value, in
\* every item of a multi-item column.
C6_ExactMatches ==
    (/\ pc = "returned"
     /\ result.op = "find_row_indices"
     /\ result.limit = <<>>
     /\ OnColumns(result.params))
    => /\ result.ok
       /\ result.matches = MatchingRows(result.params, result.substrings)

\* Whenever find_row_indices does return, the list is the exact one.
ReturnedMatchesAreExact ==
    (/\ pc = "returned"
     /\ result.op = "find_row_indices"
     /\ result.limit = <<>>
     /\ OnColumns(result.params)
     /\ result.ok)
    => result.matches = MatchingRows(result.params, result.substrings)

\* C7: on the table N = 3, -999, 12, 16 with -999 invalid, all rows
\* convertible, find_row_indices(N=12) returns [2] and
\* find_row_indices(N=-999) returns [].
C7_ScenarioLookups ==
    (/\ pc = "returned"
     /\ file = ScenarioFile
     /\ RingOf(label) = RING_NAME
     /\ args.row_range = <<>>
     /\ result.op = "find_row_indices"
     /\ result.limit = <<>>)
    => /\ result.params = <<<<N_NAME, py_int(12)>>>>
          => result.ok /\ result.matches = <<2>>
       /\ result.params = <<<<N_NAME, py_int(-999)>>>>
          => result.ok /\ result.matches = <<>>

\* what the lookup just made returns when no limit is given
Unlimited ==
    find_row_indices(Self, result.lowercase, <<>>, result.substrings,
                     result.params)

Min(a, b) == IF a <= b THEN a ELSE b

\* C8: with limit = n >= 1 find_row_indices returns the first min(n, m) of
\* the m indices, ascending, that it returns without a limit; with limit
\* None or 0 it returns all m.
C8_Limit ==
    (/\ pc = "returned"
     /\ result.op = "find_row_indices"
     /\ Unlimited.error = "")
    => /\ result.ok
       /\ \A i, j \in 1..Len(result.matches) :
             i < j => result.matches[i] < result.matches[j]
       /\ result.limit \in {<<>>, <<0>>} => result.matches = Unlimited.matches
       /\ (Len(result.limit) = 1 /\ result.limit[1] >= 1)
          => result.matches =
                SubSeq(Unlimited.matches, 1,
                       Min(result.limit[1], Len(Unlimited.matches)))

C8_Witness ==
    /\ pc = "returned"
    /\ result.op = "find_row_indices"
    /\ result.limit = <<1>>
    /\ Unlimited.error = ""
    /\ Len(Unlimited.matches) >= 2
    /\ result.matches = <<Unlimited.matches[1]>>
    /\ result.params # <<>>

ROW_NOT_FOUND == "ValueError: row not found"

\* C9: find_row_index returns the smallest index find_row_indices returns
\* for the same predicates; it raises the row-not-found ValueError, which
\* carries the predicates, exactly when find_row_indices returns the empty
\* list; find_row_indices never raises it, and returns the empty list when
\* no row matches.
C9_IndexIsFirstMatch ==
    /\ (pc = "returned" /\ result.op = "find_row_index")
       => /\ (Unlimited.error = "" /\ Unlimited.matches # <<>>)
             => /\ result.ok
                /\ \A j \in 1..Len(Unlimited.matches) :
                      result.index <= Unlimited.matches[j]
                /\ \E j \in 1..Len(Unlimited.matches) :
                      result.index = Unlimited.matches[j]
          /\ result.error = ROW_NOT_FOUND
             <=> (Unlimited.error = "" /\ Unlimited.matches = <<>>)
          /\ result.error = ROW_NOT_FOUND => result.detail = result.params
          /\ Unlimited.error # "" => result.error = Unlimited.error
    /\ (pc = "returned" /\ result.op = "find_row_indices")
       => /\ result.error # ROW_NOT_FOUND
          /\ (/\ result.ok
              /\ OnColumns(result.params)
              /\ MatchingRows(result.params, result.substrings) = <<>>)
             => result.matches = <<>>

C9_Witness ==
    /\ pc = "returned"
    /\ result.op = "find_row_index"
    /\ result.ok
    /\ result.index = 1
    /\ result.params # <<>>
    /\ Unlimited.matches = <<1>>

C9_WitnessNotFound ==
    /\ pc = "returned"
    /\ result.op = "find_row_index"
    /\ result.error = ROW_NOT_FOUND
    /\ rows >= 2
    /\ result.params # <<>>

\* C10: dicts_by_row is memoized per option pair, a bool b standing for
\* (b, b): a call returns the entry of its pair, whose contents are those of
\* a fresh build; it builds the list only when the pair has no entry, so at
\* most once per pair; and no call changes an entry made before.
C10_Memoized ==
    [][/\ \A p \in DOMAIN _dicts_by_row :
             p \in DOMAIN _dicts_by_row' /\ _dicts_by_row'[p] = _dicts_by_row[p]
       /\ \A p \in DOMAIN row_dict_builds' : row_dict_builds'[p] <= 1
       /\ (pc' = "returned" /\ result'.op = "dicts_by_row" /\ result'.ok)
          => LET pair == lowercase_pair(result'.lowercase)
             IN  /\ DOMAIN _dicts_by_row' = DOMAIN _dicts_by_row \cup {pair}
                 /\ _dicts_by_row'[pair] =
                       row_dicts_of(column_values, column_masks, keys, rows,
                                    pair).row_dicts
                 /\ result'.cached <=> pair \in DOMAIN _dicts_by_row
                 /\ row_dict_builds'[pair] = 1
      ]_vars

C10_Witness ==
    /\ pc = "returned"
    /\ result.op = "dicts_by_row"
    /\ result.lowercase = <<TRUE>>
    /\ result.cached
    /\ rows >= 2
    /\ row_dict_builds[<<TRUE, TRUE>>] = 1
    /\ Cardinality(DOMAIN _dicts_by_row) >= 3

----------------------------------------------------------------------------
(* Row dictionary keys: claim C11 *)

\* the value with every string item in lower case
LowerCased(v) ==
    seq([j \in 1..Len(ItemsOf(v)) |->
            IF is_str(ItemsOf(v)[j]) THEN lower(ItemsOf(v)[j].s)
            ELSE ItemsOf(v)[j].i])

TextOrNumber(v) ==
    seq([j \in 1..Len(ItemsOf(v)) |->
            IF is_str(ItemsOf(v)[j]) THEN ItemsOf(v)[j].s ELSE ItemsOf(v)[j].i])

\* the row dictionary d carries value and mask under key as the options
\* lowercase = <<by lower-cased key, lower-cased value>> require
Carries(d, key, value, mask, lowercase) ==
    /\ key \in DOMAIN d /\ d[key] = value
    /\ key \o MASK_SUFFIX \in DOMAIN d /\ d[key \o MASK_SUFFIX] = mask
    /\ lowercase[1]
       => /\ lower(key) \in DOMAIN d /\ d[lower(key)] = value
          /\ lower(key) \o MASK_SUFFIX \in DOMAIN d
          /\ d[lower(key) \o MASK_SUFFIX] = mask
    /\ lowercase[2]
       => /\ key \o LOWER_SUFFIX \in DOMAIN d
          /\ TextOrNumber(d[key \o LOWER_SUFFIX]) = LowerCased(value)

DictsByRowReturned == pc = "returned" /\ result.op = "dicts_by_row"

\* the list the call that just returned has returned
ReturnedRowDicts == _dicts_by_row[lowercase_pair(result.lowercase)]

RowDictsCarryColumns ==
    /\ Len(ReturnedRowDicts) = rows
    /\ \A r \in 1..rows : \A j \in 1..Len(keys) :
          \A key \in {keys[j], replace_char(keys[j], " ", "_")} :
              Carries(ReturnedRowDicts[r], key, column_values[keys[j]][r],
                      column_masks[keys[j]][r],
                      lowercase_pair(result.lowercase))

\* C11: dicts_by_row returns, for every table (column names with spaces
\* included), one dictionary per row that carries every selected column's
\* value and mask under the column's name and under the name with spaces
\* replaced by underscores, under the lower-cased keys with lowercase[0],
\* and the lower-cased value under '<key>_lower' with lowercase[1].
C11_RowDictKeys ==
    DictsByRowReturned => (result.ok /\ RowDictsCarryColumns)

\* The dictionaries are the claimed ones whenever dicts_by_row returns.
ReturnedRowDictsCarryColumns ==
    (DictsByRowReturned /\ result.ok) => RowDictsCarryColumns

----------------------------------------------------------------------------
(* Volume and file specification columns: claims C12 to C16 *)

\* the positions in the list of the synonyms that name a selected column,
\* names being the lower-cased names of the selected columns
PresentSynonyms(synonyms, names) ==
    {g \in 1..Len(synonyms) :
        \E k \in 1..Len(names) : names[k] = lower(synonyms[g])}

\* the position of the column named by the synonym g
ColumnNamed(synonym, names) ==
    (CHOOSE k \in 1..Len(names) :
        /\ names[k] = synonym
        /\ \A j \in 1..(k - 1) : names[j] # synonym) - 1

\* the position of the column named by the first of the synonyms present,
\* -1 when none is
FirstPresent(synonyms, present, names) ==
    IF present = {} THEN -1
    ELSE ColumnNamed(lower(synonyms[CHOOSE g \in present :
                                       \A h \in present : g <= h]),
                     names)

SynonymColumnOf(synonyms, names) ==
    FirstPresent(synonyms, PresentSynonyms(synonyms, names), names)

SynonymColumn(synonyms) ==
    SynonymColumnOf(synonyms, seq([k \in 1..Len(keys) |-> lower(keys[k])]))

\* C12: volume_column_index() and filespec_column_index() return the position
\* of the first synonym, in the order of the synonym list, that names a
\* selected column (names compared lower-cased), and -1 when no synonym does,
\* on the first call and on every later one.
C12_ColumnIndex ==
    /\ (pc = "returned" /\ result.op = "volume_column_index") =>
          result.value = Some(SynonymColumn(VOLUME_ID_COLUMN_NAMES))
    /\ (pc = "returned" /\ result.op = "filespec_column_index") =>
          result.value = Some(SynonymColumn(FILE_SPECIFICATION_COLUMN_NAMES))

\* what does hold: the volume index always, and the file specification index
\* of a table that has such a column
FoundColumnIndex ==
    /\ (pc = "returned" /\ result.op = "volume_column_index") =>
          result.value = Some(SynonymColumn(VOLUME_ID_COLUMN_NAMES))
    /\ (/\ pc = "returned" /\ result.op = "filespec_column_index"
        /\ SynonymColumn(FILE_SPECIFICATION_COLUMN_NAMES) # -1) =>
          result.value = Some(SynonymColumn(FILE_SPECIFICATION_COLUMN_NAMES))

\* a second synonym is among the columns, before the one found
FoundLaterColumn ==
    /\ pc = "returned" /\ result.op = "filespec_column_index"
    /\ result.value = Some(2)
    /\ PRODUCT_ID \in {keys[k] : k \in 1..Len(keys)}


\* the name of the column that holds the file specification
FilespecColumn == keys[SynonymColumn(FILE_SPECIFICATION_COLUMN_NAMES) + 1]

HasFilespecColumn == SynonymColumn(FILE_SPECIFICATION_COLUMN_NAMES) # -1

HasVolumeColumn == SynonymColumn(VOLUME_ID_COLUMN_NAMES) # -1

\* the indices, in ascending order, of the unmasked rows from row k on whose
\* value in the column, lower-cased, is (or with substring contains) the text
RECURSIVE RowsWith(_, _, _, _)
RowsWith(column, text, substring, k) ==
    IF k > rows THEN <<>>
    ELSE (IF /\ ~column_masks[column][k][1]
             /\ IF substring
                THEN str_contains(lower(column_values[column][k].s), text)
                ELSE lower(column_values[column][k].s) = text
          THEN <<k - 1>> ELSE <<>>)
         \o RowsWith(column, text, substring, k + 1)

\* the first n entries of s, all of them when limit is None
Limited(s, limit) ==
    IF limit = <<>> \/ limit = <<0>> THEN s ELSE SubSeq(s, 1, Min(limit[1], Len(s)))

\* the file specification a lookup was called with
FilespecOf(r) == IF r.filespec = None THEN r.volume_id ELSE r.filespec[1]

\* the rows that match the call r on the column alone
MatchesOn(column, r) ==
    Limited(RowsWith(column,
                     search_filespec(FilespecOf(r), column_values[column][1].s,
                                     r.substring),
                     r.substring, 1),
            r.limit)

\* the rows that match the call r on the file specification alone
FilespecAlone(r) == MatchesOn(FilespecColumn, r)

IndicesByVolumeFilespecReturned ==
    pc = "returned" /\ result.op = "find_row_indices_by_volume_filespec"

\* a call that is to match on the file specification alone
VolumeIgnored ==
    /\ IndicesByVolumeFilespecReturned
    /\ HasFilespecColumn
    /\ ~HasVolumeColumn \/ result.filespec = None \/ result.volume_id = <<>>

\* C13: find_row_indices_by_volume_filespec matches on the file specification
\* alone when the table has no volume column, when volume_id is empty and
\* when it is called with one argument; in particular a non-empty volume_id
\* on a table without volume column gives the indices of the
\* file-specification-only call.
C13_FilespecAlone ==
    VolumeIgnored => (result.ok /\ result.matches = FilespecAlone(result))

\* what does hold: the same on tables of at least one row whose column names
\* have no space, unless a volume_id is given and there is no volume column
FilespecAloneWithoutVolumeId ==
    (/\ VolumeIgnored
     /\ rows > 0
     /\ \A k \in 1..Len(keys) : ~str_contains(keys[k], <<" ">>)
     /\ result.filespec = None \/ result.volume_id = <<>>)
    => (result.ok /\ result.matches = FilespecAlone(result))

\* a lookup on the file specification alone has found a row
FilespecAloneFound ==
    /\ VolumeIgnored
    /\ result.ok
    /\ Len(result.matches) = 2
    /\ ~HasVolumeColumn


VolumeFilespecLookups ==
    {"find_row_indices_by_volume_filespec", "find_row_index_by_volume_filespec",
     "find_rows_by_volume_filespec", "find_row_by_volume_filespec"}

COLUMN_NOT_FOUND == "ValueError: FILE SPECIFICATION NAME column not found"

\* a volume and file specification lookup has ended on a table that has no
\* file specification column
LookupWithoutFilespecColumn ==
    /\ pc = "returned"
    /\ result.op \in VolumeFilespecLookups
    /\ ~HasFilespecColumn

\* C14: on a table without file specification column every volume and file
\* specification lookup (indices, index, rows, row) raises ValueError 'FILE
\* SPECIFICATION NAME column not found', on the first call and on every
\* later one; none returns.
C14_NoFilespecColumn ==
    LookupWithoutFilespecColumn => result.error = COLUMN_NOT_FOUND

\* what does hold: the same on tables of at least one row whose column names
\* have no space
NoFilespecColumnInRows ==
    (/\ LookupWithoutFilespecColumn
     /\ rows > 0
     /\ \A k \in 1..Len(keys) : ~str_contains(keys[k], <<" ">>))
    => result.error = COLUMN_NOT_FOUND

\* the lookup has raised the ValueError a second time
ColumnNotFoundAgain ==
    /\ LookupWithoutFilespecColumn
    /\ result.error = COLUMN_NOT_FOUND
    /\ filespec_colname_index = Some(-1)
    /\ row_dict_builds[<<TRUE, TRUE>>] = 1
    /\ result.op = "find_rows_by_volume_filespec"


\* the part of a path after its last '/'
LastComponent(p) ==
    LET n == CHOOSE n \in 0..Len(p) :
                /\ \A j \in (Len(p) - n + 1)..Len(p) : p[j] # "/"
                /\ n = Len(p) \/ p[Len(p) - n] = "/"
    IN  SubSeq(p, Len(p) - n + 1, Len(p))

\* the part of a path before its last component, with the '/' that ends it
Directories(p) == SubSeq(p, 1, Len(p) - Len(LastComponent(p)))

\* the extension of a file name: from its last '.' on, none when there is no
\* '.' after the first character
Extension(name) ==
    IF \E j \in 2..Len(name) : name[j] = "."
    THEN LET j == CHOOSE j \in 2..Len(name) :
                     name[j] = "." /\ \A i \in (j + 1)..Len(name) : name[i] # "."
         IN  SubSeq(name, j, Len(name))
    ELSE <<>>

Stem(name) == SubSeq(name, 1, Len(name) - Len(Extension(name)))

\* a/b/ as [a.b]
Bracketed(dirs) ==
    <<"[">> \o replace_char(SubSeq(dirs, 1, Len(dirs) - 1), "/", ".") \o <<"]">>

\* the lookup key of the path p against the example
NormalizedKey(p, example, substring) ==
    lower((IF str_contains(example, <<"[">>) THEN Bracketed(Directories(p))
           ELSE IF ~str_contains(example, <<"/">>) THEN <<>>
           ELSE Directories(p))
          \o Stem(LastComponent(p))
          \o (IF substring THEN <<>> ELSE Extension(LastComponent(example))))

\* the first file specification of the table
Example == column_values[FilespecColumn][1].s

\* a volume and file specification lookup has searched the table
Searched == IndicesByVolumeFilespecReturned /\ result.params # <<>>

FOO_TAB == <<"F","O","O",".","T","A","B">>
bar_txt == <<"b","a","r",".","t","x","t">>
foo_txt == <<"f","o","o",".","t","x","t">>

\* C15: the file specification searched for is the supplied one normalized
\* against the first file specification of the table: in bracketed-directory
\* notation if that contains '[', else reduced to its basename if that
\* contains no '/'; with the extension replaced by the example's unless
\* substring matching is asked for; lower-cased.  'FOO.TAB' against 'bar.txt'
\* gives 'foo.txt'.
C15_Normalized ==
    /\ Searched =>
          result.params[1][2].s =
             NormalizedKey(FilespecOf(result), Example, result.substring)
    /\ search_filespec(FOO_TAB, bar_txt, FALSE) = foo_txt

\* what does hold: the same unless the path has no extension and is put in
\* bracketed-directory notation with more than one directory
NormalizedWithExtension ==
    /\ (/\ Searched
        /\ \/ Extension(LastComponent(FilespecOf(result))) # <<>>
           \/ ~str_contains(Example, <<"[">>)) =>
          result.params[1][2].s =
             NormalizedKey(FilespecOf(result), Example, result.substring)
    /\ search_filespec(FOO_TAB, bar_txt, FALSE) = foo_txt

\* a path with directory and extension has been searched for in a table of
\* file names, and found
NormalizedFound ==
    /\ Searched
    /\ str_contains(FilespecOf(result), <<"/">>)
    /\ ~str_contains(Example, <<"/">>) /\ ~str_contains(Example, <<"[">>)
    /\ ~result.substring
    /\ result.ok /\ Len(result.matches) > 0


\* the filename key of a file specification: its basename without extension,
\* cut to filename_keylen characters when that is positive, lower-cased
KeyOf(filespec) ==
    LET stem == Stem(LastComponent(filespec))
    IN  lower(IF args.filename_keylen > 0
              THEN SubSeq(stem, 1, Min(args.filename_keylen, Len(stem)))
              ELSE stem)

\* the indices, in ascending order, of the unmasked rows from row k on whose
\* value in the column has the key
RECURSIVE RowsOfKeyIn(_, _, _)
RowsOfKeyIn(column, key, k) ==
    IF k > rows THEN <<>>
    ELSE (IF /\ ~column_masks[column][k][1]
             /\ KeyOf(column_values[column][k].s) = key
          THEN <<k - 1>> ELSE <<>>)
         \o RowsOfKeyIn(column, key, k + 1)

\* the rows of a key in the table: none without file specification column
RowsOfKey(key) ==
    IF HasFilespecColumn THEN RowsOfKeyIn(FilespecColumn, key, 1) ELSE <<>>

\* the index holds the rows of the column by their keys
IndexOf(column, rows_by_filename) ==
    /\ \A key \in DOMAIN rows_by_filename :
          /\ rows_by_filename[key] = RowsOfKeyIn(column, key, 1)
          /\ rows_by_filename[key] # <<>>
    /\ \A k \in 1..rows :
          ~column_masks[column][k][1] =>
             KeyOf(column_values[column][k].s) \in DOMAIN rows_by_filename

\* what a lookup is to give: rows are the rows of its key
LookupGives(r, found) ==
    IF found # <<>> THEN r.ok /\ r.indices = found
    ELSE r.error = "KeyError"

RowIndicesByFilenameKeyReturned ==
    pc = "returned" /\ result.op = "row_indices_by_filename_key"

\* C16: the index by filename key maps each key (the basename of a file
\* specification without extension, cut to filename_keylen characters when
\* that is positive, lower-cased) to the ascending list of all unmasked rows
\* whose file specification has that key; a masked row is under no key;
\* row_indices_by_filename_key(key) returns the list of the lower-cased key
\* and raises KeyError when the key has no rows.
C16_FilenameKeyIndex ==
    /\ _rows_by_filename # None =>
          IndexOf(FilespecColumn, _rows_by_filename[1])
    /\ RowIndicesByFilenameKeyReturned =>
          LookupGives(result, RowsOfKey(lower(result.key)))

\* two rows are found under a key given in another case, in a table cut to
\* keys of two characters
C16_Witness ==
    /\ RowIndicesByFilenameKeyReturned
    /\ result.ok
    /\ result.key = <<"A", "B">>
    /\ result.indices = <<0, 1>>
    /\ args.filename_keylen = 2

\* a masked row is left out of the index, and a key without rows is unknown
C16_WitnessMasked ==
    /\ RowIndicesByFilenameKeyReturned
    /\ result.error = "KeyError"
    /\ _rows_by_filename # None
    /\ \E k \in 1..rows : column_masks[FilespecColumn][k][1]
    /\ DOMAIN _rows_by_filename[1] # {}

----------------------------------------------------------------------------
(* Schemas: claims C17 to C19 *)

\* a label of several table files, each with its file name, has been
\* resolved
SeveralFilesResolved ==
    /\ pc = "resolved"
    /\ result.op = "Pds4TableInfo"
    /\ label.k = "list"
    /\ \A j \in 1..Len(label.v) : "File" \in DOMAIN label.v[j]

\* the names of the candidate table files, in the order of the label
Candidates == seq([j \in 1..Len(label.v) |-> label.v[j].File.file_name])

IsCandidate(table_file) ==
    table_file # None /\ \E j \in 1..Len(Candidates) : Candidates[j] = table_file[1]

\* the file area of the candidate
AreaOf(file_name) ==
    label.v[CHOOSE j \in 1..Len(label.v) : label.v[j].File.file_name = file_name]

\* the schema that the file area has in a label of its own
SchemaOf(area) ==
    Pds4TableInfo(py_dict(area), args.invalid, args.valid_ranges, None)

\* the schema info is that of the area, under the name of the table file
SelectedArea(info, table_file, own) ==
    /\ info.error = own.error
    /\ info.error = "" =>
          /\ info.table_file_name = table_file
          /\ info.column_info_list = own.column_info_list
          /\ info.column_info_dict = own.column_info_dict
          /\ info.rows = own.rows
          /\ info.row_bytes = own.row_bytes
          /\ info.header_bytes = own.header_bytes

\* C17: when a PDS4 label has several candidate table files and no
\* table_file is given, or one that is no candidate, resolution raises a
\* ValueError that lists all candidate file names; when table_file is a
\* candidate, resolution takes the file area of that file and
\* table_file_name is the name given.
C17_TableFile ==
    SeveralFilesResolved =>
       IF IsCandidate(args.table_file)
       THEN SelectedArea(result.info, args.table_file[1],
                         SchemaOf(AreaOf(args.table_file[1])))
       ELSE /\ result.info.error = NO_SUCH_TABLE_FILE
            /\ result.info.candidates = Candidates

\* the second of two candidates has been selected
C17_Witness ==
    /\ SeveralFilesResolved
    /\ args.table_file = Some("b.csv")
    /\ result.ok
    /\ result.info.table_file_name = "b.csv"
    /\ ~result.info.fixed_length_row

\* a table file that is no candidate has been refused
C17_WitnessRefused ==
    /\ SeveralFilesResolved
    /\ args.table_file = Some("x.tab")
    /\ result.info.error = NO_SUCH_TABLE_FILE
    /\ Len(result.info.candidates) = 2


\* the label is a PDS4 label of one table file, and table_file, if given,
\* names that file
OneTableFile ==
    /\ label.k = "dict"
    /\ "File" \in DOMAIN label.v[1]
    /\ args.table_file \in {None, Some(label.v[1].File.file_name)}

\* a label of one table has been resolved, by either resolver
OneTableResolved ==
    /\ pc = "resolved"
    /\ result.op = "PdsTableInfo" \/ OneTableFile

\* the names and the types that the label declares for its columns
DeclaredNames ==
    IF result.op = "PdsTableInfo"
    THEN seq([j \in 1..Len(label.COLUMNS) |-> label.COLUMNS[j].NAME])
    ELSE seq([j \in 1..Len(label.v[1].columns) |-> label.v[1].columns[j].name])

DeclaredTypes ==
    IF result.op = "PdsTableInfo"
    THEN seq([j \in 1..Len(label.COLUMNS) |->
                 column_data_type(label.COLUMNS[j].NAME, label.COLUMNS[j].DATA_TYPE)])
    ELSE seq([j \in 1..Len(label.v[1].columns) |->
                 pds4_data_type(label.v[1].columns[j].name,
                                label.v[1].columns[j].data_type)])

HasDuplicate(names) ==
    \E j, l \in 1..Len(names) : j < l /\ names[j] = names[l]

\* the names of the columns of a schema
NamesOf(info) ==
    seq([j \in 1..Len(info.column_info_list) |-> info.column_info_list[j].name])

\* the columns of the schema have names of their own, and the dictionary
\* has one entry for each
UniqueNames(info) ==
    /\ ~HasDuplicate(NamesOf(info))
    /\ DOMAIN info.column_info_dict =
          {info.column_info_list[j].name : j \in 1..Len(info.column_info_list)}
    /\ Cardinality(DOMAIN info.column_info_dict) = Len(info.column_info_list)

DUPLICATED == "ValueError: duplicated column name"

\* C18: in every schema resolved, by PdsTableInfo or by Pds4TableInfo, the
\* column names are unique, column_info_list holding no name twice and
\* column_info_dict one entry for each column; a label that declares a column
\* name twice (with types that are supported) is rejected with ValueError
\* 'duplicated column name'.
C18_UniqueNames ==
    OneTableResolved =>
       /\ result.ok => UniqueNames(result.info)
       /\ (/\ HasDuplicate(DeclaredNames)
           /\ \A j \in 1..Len(DeclaredTypes) : DeclaredTypes[j] # "") =>
             result.info.error = DUPLICATED

\* what does hold: the same for PDS3 labels, and for PDS4 labels in which no
\* column is named 'Target'
UniqueNamesButTarget ==
    (/\ OneTableResolved
     /\ result.op = "PdsTableInfo"
        \/ \A j \in 1..Len(DeclaredNames) : DeclaredNames[j] # Target) =>
       /\ result.ok => UniqueNames(result.info)
       /\ (/\ HasDuplicate(DeclaredNames)
           /\ \A j \in 1..Len(DeclaredTypes) : DeclaredTypes[j] # "") =>
             result.info.error = DUPLICATED

\* a schema holds two columns of the same name
TwoColumnsOfOneName ==
    /\ OneTableResolved
    /\ result.ok
    /\ HasDuplicate(NamesOf(result.info))

\* a label with a name declared twice has been rejected by each resolver
DuplicateRejected ==
    /\ OneTableResolved
    /\ result.info.error = DUPLICATED
    /\ result.op = "Pds4TableInfo"


\* the name ends in '_TIME' or '_DATE'
TimeName(name) ==
    endswith(name, <<"_","T","I","M","E">>) \/ endswith(name, <<"_","D","A","T","E">>)

\* the declarations of the columns of the label resolved
DeclaredBy(names) ==
    {d \in Declarations : \E j \in 1..Len(names) : names[j] = d[1]}

\* C19: a column whose name ends in '_TIME' or '_DATE' gets the logical type
\* time whatever type the label declares for it, and PdsColumnInfo and
\* Pds4ColumnInfo give the same logical type to a name with equivalent
\* declared types.
C19_TimeByName ==
    /\ (OneTableResolved /\ result.ok) =>
          \A j \in 1..Len(result.info.column_info_list) :
             TimeName(result.info.column_info_list[j].name) =>
                result.info.column_info_list[j].data_type = "time"
    /\ OneTableResolved =>
          \A d \in DeclaredBy(DeclaredNames) :
             column_data_type(d[1], d[3]) = pds4_data_type(d[1], d[2])

\* what does hold: the same for the schemas of PDS4 labels
Pds4TimeByName ==
    (OneTableResolved /\ result.ok /\ result.op = "Pds4TableInfo") =>
       \A j \in 1..Len(result.info.column_info_list) :
          TimeName(result.info.column_info_list[j].name) =>
             result.info.column_info_list[j].data_type = "time"

\* a column of integers named as a time, in a PDS4 schema
Pds4TimeOfIntegers ==
    /\ OneTableResolved /\ result.ok /\ result.op = "Pds4TableInfo"
    /\ \E j \in 1..Len(result.info.column_info_list) :
          /\ result.info.column_info_list[j].name = START_TIME
          /\ label.v[1].columns[j].data_type = "ASCII_Integer"

----------------------------------------------------------------------------
(* Decode warnings: claim C20 *)

\* construction got as far as "for key in self.keys"
DecodingStarted == pc # "new" /\ error \in {"", "TypeError"}

\* the description of the table and the records the constructor decodes
DescribedTable == PdsTableInfo(label, args.invalid, args.valid_ranges)
DecodedLines == load_lines(DescribedTable, label, file, args.row_range).lines

SelectedKeys ==
    IF Len(args.columns) = 0
    THEN seq([j \in 1..Len(DescribedTable.column_info_list) |->
                 DescribedTable.column_info_list[j].name])
    ELSE args.columns

\* the raw texts of a column that no number can be read from, item by item
\* and row by row within an item
FailedEntries(info, lines) ==
    IF info.data_type = "string" THEN <<>>
    ELSE concat(seq([i \in 1..(IF info.items > 1 THEN info.items ELSE 1) |->
            SelectSeq(seq([r \in 1..Len(lines) |-> item_field(info, lines[r], i)]),
                      LAMBDA raw : ~int(raw).ok)]))

WarningsNaming(name) == SelectSeq(warnings, LAMBDA w : w.name = name)

ExpectedWarnings(info, failed) ==
    IF Len(failed) = 0 THEN <<>>
    ELSE <<[data_type     |-> info.data_type,
            name          |-> info.name,
            error_count   |-> Len(failed),
            error_example |-> strip(failed[1])]>>

WarnedAsExpected(dict, lines) ==
    \A j \in 1..Len(SelectedKeys) :
        WarningsNaming(SelectedKeys[j])
            = ExpectedWarnings(dict[SelectedKeys[j]],
                               FailedEntries(dict[SelectedKeys[j]], lines))

\* C20: once construction has decoded the columns, each selected column has
\* no warning if none of its entries failed conversion, and otherwise one
\* warning with its name, its logical type, the number of failed entries over
\* all items and rows, and the trimmed text of the first failed entry, items
\* first and rows within an item
C20_DecodeWarnings ==
    DecodingStarted => WarnedAsExpected(DescribedTable.column_info_dict, DecodedLines)

\* the same of the constructions that return a table
DecodeWarningsOfReturnedTables ==
    pc = "ready" => WarnedAsExpected(DescribedTable.column_info_dict, DecodedLines)

\* a returned table with two failed entries in one column
TwoFailuresOneWarning ==
    /\ pc = "ready"
    /\ \E w \in 1..Len(warnings) : warnings[w].error_count = 2

----------------------------------------------------------------------------
(* The row-by-row conversion: claims C21 and C22 *)

\* the column name is a selected scalar column, one of its entries fails
\* conversion, and no other entry of the table does
OnlyFailure(dict, lines, name) ==
    /\ dict[name].items <= 1
    /\ Len(FailedEntries(dict[name], lines)) = 1
    /\ \A j \in 1..Len(SelectedKeys) :
           SelectedKeys[j] # name =>
               Len(FailedEntries(dict[SelectedKeys[j]], lines)) = 0

\* the table is returned; every row whose field holds a number has that
\* number and is masked by the validity criteria alone, the other row is
\* masked, and one warning names the column
FallbackCorrect(info, lines, name) ==
    /\ pc = "ready"
    /\ \A r \in 1..Len(lines) :
           LET raw == item_field(info, lines[r], 1)
           IN  IF int(raw).ok
               THEN /\ is_number(column_values[name][r])
                    /\ column_values[name][r].i = int(raw).v
                    /\ column_masks[name][r]
                           = <<~IsValidValue(py_int(int(raw).v), info)>>
               ELSE column_masks[name][r] = <<TRUE>>
    /\ Len(WarningsNaming(name)) = 1

FallbackOf(dict, lines, ranged) ==
    \A j \in 1..Len(SelectedKeys) :
        /\ OnlyFailure(dict, lines, SelectedKeys[j])
        /\ dict[SelectedKeys[j]].valid_range \in ranged
        => FallbackCorrect(dict[SelectedKeys[j]], lines, SelectedKeys[j])

\* C21: when exactly one row of an integer column holds a text that is no
\* number, the table is constructed, every other row has its parsed number and
\* the mask its invalid values and valid range give, the offending row is
\* masked, and exactly one warning names the column
C21_Fallback ==
    DecodingStarted =>
        FallbackOf(DescribedTable.column_info_dict, DecodedLines,
                   {<<>>} \cup {<<a, b>> : a, b \in 0..12})

\* the same of the columns that declare no valid range
FallbackWithoutRange ==
    DecodingStarted =>
        FallbackOf(DescribedTable.column_info_dict, DecodedLines, {<<>>})

\* a table returned with one failed entry in N, a parsed row masked as an
\* invalid value and a parsed row unmasked
FallbackWithInvalidValue ==
    /\ pc = "ready"
    /\ N_NAME \in DOMAIN column_values
    /\ OnlyFailure(DescribedTable.column_info_dict, DecodedLines, N_NAME)
    /\ \E r \in 1..rows : /\ column_values[N_NAME][r].k = "int"
                          /\ column_masks[N_NAME][r] = <<TRUE>>
    /\ \E r \in 1..rows : column_masks[N_NAME][r] = <<FALSE>>

ItemCount(info) == IF info.items > 1 THEN info.items ELSE 1

\* the entry of item i in row r of the column name, and the mask entry that
\* covers it
EntryOf(name, r, i) ==
    IF Len(column_values[name][r].e) = 0 THEN column_values[name][r]
    ELSE column_values[name][r].e[i]

MaskOf(name, r, i) ==
    IF Len(column_masks[name][r]) = 1 THEN column_masks[name][r][1]
    ELSE column_masks[name][r][i]

\* the table is returned, and every entry of the column that failed
\* conversion is its stripped raw text, masked
FailuresMasked(info, lines, name) ==
    /\ pc = "ready"
    /\ \A r \in 1..Len(lines) : \A i \in 1..ItemCount(info) :
           ~int(item_field(info, lines[r], i)).ok =>
               /\ EntryOf(name, r, i) = py_str(strip(item_field(info, lines[r], i)))
               /\ MaskOf(name, r, i)

FailuresOf(dict, lines, ranged) ==
    \A j \in 1..Len(SelectedKeys) :
        /\ Len(FailedEntries(dict[SelectedKeys[j]], lines)) > 0
        /\ \A k \in 1..Len(SelectedKeys) :
               Len(FailedEntries(dict[SelectedKeys[k]], lines)) > 0
                   => dict[SelectedKeys[k]].valid_range \in ranged
        => FailuresMasked(dict[SelectedKeys[j]], lines, SelectedKeys[j])

\* C22: an entry that fails conversion never aborts construction, with or
\* without a valid range on its column: the table is returned, the entry is
\* its raw text and it is masked
C22_FailureNeverAborts ==
    DecodingStarted =>
        FailuresOf(DescribedTable.column_info_dict, DecodedLines,
                   {<<>>} \cup {<<a, b>> : a, b \in 0..12})

\* the same when no column with a failed entry declares a valid range
FailureWithoutRangeNeverAborts ==
    DecodingStarted =>
        FailuresOf(DescribedTable.column_info_dict, DecodedLines, {<<>>})

\* a returned table with a failed entry in the second item of V
FailedItemMasked ==
    /\ pc = "ready"
    /\ V_NAME \in DOMAIN column_values
    /\ \E r \in 1..rows : /\ EntryOf(V_NAME, r, 2).k = "str"
                          /\ MaskOf(V_NAME, r, 2)

----------------------------------------------------------------------------
(* Masks of the items of a column: claim C23 *)

\* the mask of one entry decoded on its own from its raw text
ItemMask(info, raw) ==
    IF info.data_type = "string" THEN ~IsValidValue(py_str(strip(raw)), info)
    ELSE IF int(raw).ok THEN ~IsValidValue(py_int(int(raw).v), info)
    ELSE TRUE

ItemMasks(info, line) ==
    seq([i \in 1..ItemCount(info) |-> ItemMask(info, item_field(info, line, i))])

RowMask(info, line, merge_masks) ==
    IF ItemCount(info) = 1 \/ merge_masks
    THEN <<\E i \in 1..ItemCount(info) : ItemMasks(info, line)[i]>>
    ELSE ItemMasks(info, line)

MasksByItem(dict, lines) ==
    \A j \in 1..Len(keys) : \A r \in 1..Len(lines) :
        column_masks[keys[j]][r] = RowMask(dict[keys[j]], lines[r], args.merge_masks)

C23_WitnessUnmerged ==
    /\ pc = "ready"
    /\ ~args.merge_masks
    /\ V_NAME \in DOMAIN column_masks
    /\ \E r \in 1..rows : column_masks[V_NAME][r] = <<FALSE, TRUE>>

----------------------------------------------------------------------------
(* Callbacks and replacements: claim C24 *)

MaxDecodeRows == 2

S_alpha == <<"a","l","p","h","a">>

\* the records of the tables decoded with callbacks and replacements
DecodeRecords ==
    {Record(N_M999, S_alpha, V_3_3), Record(N_M999, S_UNK, V_3_3),
     Record(N_16, S_UNK, V_3_3), Record(N_3, S_alpha, V_3_3),
     Record(N_BAD, S_alpha, V_3_3)}

Callback(from, to) == [from |-> from, to |-> to]

Pair(before, after) == [before |-> before, after |-> after]

\* callbacks=: none, one that rewrites the N field -999 to 16, one that
\* rewrites the ring field UNK to alpha, or both
DecodeCallbacks ==
    {<<>>,
     N_NAME :> Callback(N_M999, N_16),
     RING_NAME :> Callback(S_UNK, S_alpha),
     (N_NAME :> Callback(N_M999, N_16)) @@ (RING_NAME :> Callback(S_UNK, S_alpha))}

\* the replacement dictionaries of N: of raw texts (the callback's result,
\* the callback's argument, an unreadable text) and of a number
NReplacements ==
    {<<>>,
     <<Pair(py_str(N_16), py_str(N_12))>>,
     <<Pair(py_str(N_M999), py_str(N_3))>>,
     <<Pair(py_str(N_BAD), py_str(N_3))>>,
     <<Pair(py_int(16), py_int(12))>>,
     <<Pair(py_int(3), py_int(-999)), Pair(py_str(N_BAD), py_str(N_16))>>}

RingReplacements ==
    {<<>>, <<Pair(py_str(S_alpha), py_str(S_UNK))>>}

DecodeReplacements ==
    {(N_NAME :> n) @@ (RING_NAME :> s) : n \in NReplacements, s \in RingReplacements}

DecodeArgs(callbacks, replacements, valid_ranges) ==
    [Args(<<>>, Invalids, valid_ranges, FALSE, <<>>)
        EXCEPT !.callbacks = callbacks, !.replacements = replacements]

InitCallbacks ==
    /\ InitTable
    /\ file \in Files(DecodeRecords, MaxDecodeRows)
    /\ label = TableLabel(RING_NAME, "FIXED_LENGTH", RowsOf(file))
    /\ args \in {DecodeArgs(c, d, v) : c \in DecodeCallbacks,
                     d \in DecodeReplacements, v \in {NoRange, Ranges}}

NextCallbacks == Construct

SpecCallbacks == InitCallbacks /\ [][NextCallbacks]_vars

\* the text the caller's callback makes of a raw field
Called(name, raw) ==
    IF name \in DOMAIN args.callbacks /\ raw = args.callbacks[name].from
    THEN args.callbacks[name].to
    ELSE raw

\* the value the replacement dictionary of the column gives for v
Replaced(name, v) ==
    IF name \in DOMAIN args.replacements
       /\ \E j \in 1..Len(args.replacements[name]) :
              py_eq(args.replacements[name][j].before, v)
    THEN args.replacements[name][
             CHOOSE j \in 1..Len(args.replacements[name]) :
                 py_eq(args.replacements[name][j].before, v)].after
    ELSE v

\* callback first, then the replacement of the raw text
Rewritten(name, raw) == Replaced(name, py_str(Called(name, raw))).s

\* then the conversion, and the replacement of the number converted
Converted(info, text) ==
    IF info.data_type = "string" \/ ~int(text).ok THEN py_str(strip(text))
    ELSE Replaced(info.name, py_int(int(text).v))

\* and only then the validity tests, on the value that results
Masked(info, text) ==
    \/ info.data_type # "string" /\ ~int(text).ok
    \/ ~IsValidValue(Converted(info, text), info)

DecodedInOrder(dict, lines) ==
    \A j \in 1..Len(keys) : \A r \in 1..Len(lines) :
        \A i \in 1..ItemCount(dict[keys[j]]) :
            LET text == Rewritten(keys[j], item_field(dict[keys[j]], lines[r], i))
            IN  /\ py_eq(EntryOf(keys[j], r, i), Converted(dict[keys[j]], text))
                /\ MaskOf(keys[j], r, i) = Masked(dict[keys[j]], text)

\* C24: every entry of a constructed table is the result of the callback
\* applied to the raw field, then the replacement dictionary, then the type
\* conversion, and its mask is that of the invalid-value and valid-range
\* tests applied to that result
C24_DecodingOrder ==
    pc = "ready" => DecodedInOrder(DescribedTable.column_info_dict, DecodedLines)

\* a row of N read as -999, an invalid value, that the callback rewrites to
\* 16 and the dictionary to 12: stored as 12 and not masked
C24_Witness ==
    /\ pc = "ready"
    /\ N_NAME \in DOMAIN args.callbacks
    /\ \E r \in 1..rows :
           /\ item_field(DescribedTable.column_info_dict[N_NAME], DecodedLines[r], 1)
                  = N_M999
           /\ column_values[N_NAME][r].i = 12
           /\ column_masks[N_NAME][r] = <<FALSE>>

----------------------------------------------------------------------------
(* Unsynchronized callers of the lazy caches: claim C25.  Each caller runs
   one method at a time; a step is one test, one attribute assignment or one
   loop over constructed (immutable) data. *)

frame_of_callers ==
    UNCHANGED <<label, file, args, pc, error, table_vars, row_dict_builds, result>>

outcome(kind, v) == [kind |-> kind, v |-> v]

\* an attribute that holds None or an integer, as a value returned
index_outcome(attribute) ==
    IF attribute = None THEN outcome("None", <<>>) ELSE outcome("int", attribute)

\* "return": to the statement ret of the calling method, or out of the call
return_from(c, out) ==
    IF callers[c].ret = ""
    THEN [callers EXCEPT ![c] = [idle EXCEPT !.at = "done", !.op = callers[c].op,
                                             !.out = <<out>>]]
    ELSE [callers EXCEPT ![c].at = callers[c].ret, ![c].ret = "",
                         ![c].found = <<>>]

\* "raise": out of the call
raise_from(c, e) ==
    [callers EXCEPT ![c] = [idle EXCEPT !.at = "done", !.op = callers[c].op,
                                        !.out = <<outcome("raise", <<e>>)>>]]

goto(c, at) == [callers EXCEPT ![c].at = at]

Methods ==
    {"volume_column_index", "filespec_column_index",
     "index_rows_by_filename_key", "dicts_by_row"}

entry(op) ==
    CASE op = "volume_column_index" -> "v_test"
      [] op = "filespec_column_index" -> "f_test"
      [] op = "index_rows_by_filename_key" -> "i_test"
      [] op = "dicts_by_row" -> "d_test"

\* a caller calls a method
Call(c, op) ==
    /\ pc = "ready"
    /\ callers[c].at = "idle"
    /\ callers' = [callers EXCEPT ![c].at = entry(op), ![c].op = op]
    /\ frame_of_callers
    /\ UNCHANGED <<_dicts_by_row, volume_vars, filespec_vars, index_vars>>

\* the caller has its result and goes on
CallerReturns(c) ==
    /\ callers[c].at = "done"
    /\ callers' = [callers EXCEPT ![c] = idle]
    /\ frame_of_callers
    /\ UNCHANGED <<_dicts_by_row, volume_vars, filespec_vars, index_vars>>

\* volume_column_index: "if self._volume_colname_index is None", and
\* "return self._volume_colname_index"
VolumeTest(c) ==
    /\ callers[c].at \in {"v_test", "v_return"}
    /\ callers' =
          IF callers[c].at = "v_test"
          THEN goto(c, IF _volume_colname_index = None THEN "v_default_index"
                       ELSE "v_return")
          ELSE return_from(c, index_outcome(_volume_colname_index))
    /\ frame_of_callers
    /\ UNCHANGED <<_dicts_by_row, volume_vars, filespec_vars, index_vars>>

\* "self._volume_colname_index = -1", "self._volume_colname = ''",
\* "self._volume_colname_lc = ''"
VolumeDefaults(c) ==
    /\ callers[c].at \in {"v_default_index", "v_default_name", "v_default_lc"}
    /\ \/ /\ callers[c].at = "v_default_index"
          /\ _volume_colname_index' = Some(-1)
          /\ callers' = goto(c, "v_default_name")
          /\ UNCHANGED <<_volume_colname, _volume_colname_lc>>
       \/ /\ callers[c].at = "v_default_name"
          /\ _volume_colname' = Some(<<>>)
          /\ callers' = goto(c, "v_default_lc")
          /\ UNCHANGED <<_volume_colname_index, _volume_colname_lc>>
       \/ /\ callers[c].at = "v_default_lc"
          /\ _volume_colname_lc' = Some(<<>>)
          /\ callers' = goto(c, "v_loop")
          /\ UNCHANGED <<_volume_colname_index, _volume_colname>>
    /\ frame_of_callers
    /\ UNCHANGED <<_dicts_by_row, filespec_vars, index_vars>>

\* "for guess in VOLUME_ID_COLUMN_NAMES_lc: if guess in self.keys_lc"
VolumeLoop(c) ==
    /\ callers[c].at = "v_loop"
    /\ LET found == first_guess(VOLUME_ID_COLUMN_NAMES_lc, keys_lc(keys), 1)
       IN  callers' = IF found = None THEN goto(c, "v_return")
                      ELSE [callers EXCEPT ![c].at = "v_found_index",
                                           ![c].found = found]
    /\ frame_of_callers
    /\ UNCHANGED <<_dicts_by_row, volume_vars, filespec_vars, index_vars>>

\* "self._volume_colname_index = k", "self._volume_colname_lc = guess",
\* "self._volume_colname = self.keys[k]; return k"
VolumeFound(c) ==
    /\ callers[c].at \in {"v_found_index", "v_found_lc", "v_found_name"}
    /\ \/ /\ callers[c].at = "v_found_index"
          /\ _volume_colname_index' = Some(callers[c].found[1][1])
          /\ callers' = goto(c, "v_found_lc")
          /\ UNCHANGED <<_volume_colname, _volume_colname_lc>>
       \/ /\ callers[c].at = "v_found_lc"
          /\ _volume_colname_lc' = Some(callers[c].found[1][2])
          /\ callers' = goto(c, "v_found_name")
          /\ UNCHANGED <<_volume_colname_index, _volume_colname>>
       \/ /\ callers[c].at = "v_found_name"
          /\ _volume_colname' = Some(keys[callers[c].found[1][1] + 1])
          /\ callers' = return_from(c, outcome("int", <<callers[c].found[1][1]>>))
          /\ UNCHANGED <<_volume_colname_index, _volume_colname_lc>>
    /\ frame_of_callers
    /\ UNCHANGED <<_dicts_by_row, filespec_vars, index_vars>>

\* filespec_column_index: "if self._filespec_colname_index is None", and
\* "return self._filespec_colname_index"
FilespecTest(c) ==
    /\ callers[c].at \in {"f_test", "f_return"}
    /\ callers' =
          IF callers[c].at = "f_test"
          THEN goto(c, IF _filespec_colname_index = None THEN "f_default_index"
                       ELSE "f_return")
          ELSE return_from(c, index_outcome(_filespec_colname_index))
    /\ frame_of_callers
    /\ UNCHANGED <<_dicts_by_row, volume_vars, filespec_vars, index_vars>>

\* "self.filespec_colname_index = -1", "self.filespec_colname = ''",
\* "self.filespec_colname_lc = ''"
FilespecDefaults(c) ==
    /\ callers[c].at \in {"f_default_index", "f_default_name", "f_default_lc"}
    /\ \/ /\ callers[c].at = "f_default_index"
          /\ filespec_colname_index' = Some(-1)
          /\ callers' = goto(c, "f_default_name")
          /\ UNCHANGED <<filespec_colname, filespec_colname_lc>>
       \/ /\ callers[c].at = "f_default_name"
          /\ filespec_colname' = Some(<<>>)
          /\ callers' = goto(c, "f_default_lc")
          /\ UNCHANGED <<filespec_colname_index, filespec_colname_lc>>
       \/ /\ callers[c].at = "f_default_lc"
          /\ filespec_colname_lc' = Some(<<>>)
          /\ callers' = goto(c, "f_loop")
          /\ UNCHANGED <<filespec_colname_index, filespec_colname>>
    /\ frame_of_callers
    /\ UNCHANGED <<_dicts_by_row, volume_vars, index_vars,
                   _filespec_colname_index, _filespec_colname, _filespec_colname_lc>>

\* "for guess in FILE_SPECIFICATION_COLUMN_NAMES_lc: if guess in self.keys_lc"
FilespecLoop(c) ==
    /\ callers[c].at = "f_loop"
    /\ LET found == first_guess(FILE_SPECIFICATION_COLUMN_NAMES_lc, keys_lc(keys), 1)
       IN  callers' = IF found = None THEN goto(c, "f_return")
                      ELSE [callers EXCEPT ![c].at = "f_found_index",
                                           ![c].found = found]
    /\ frame_of_callers
    /\ UNCHANGED <<_dicts_by_row, volume_vars, filespec_vars, index_vars>>

\* "self._filespec_colname_index = k", "self._filespec_colname_lc = guess",
\* "self._filespec_colname = self.keys[k]; return k"
FilespecFound(c) ==
    /\ callers[c].at \in {"f_found_index", "f_found_lc", "f_found_name"}
    /\ \/ /\ callers[c].at = "f_found_index"
          /\ _filespec_colname_index' = Some(callers[c].found[1][1])
          /\ callers' = goto(c, "f_found_lc")
          /\ UNCHANGED <<_filespec_colname, _filespec_colname_lc>>
       \/ /\ callers[c].at = "f_found_lc"
          /\ _filespec_colname_lc' = Some(callers[c].found[1][2])
          /\ callers' = goto(c, "f_found_name")
          /\ UNCHANGED <<_filespec_colname_index, _filespec_colname>>
       \/ /\ callers[c].at = "f_found_name"
          /\ _filespec_colname' = Some(keys[callers[c].found[1][1] + 1])
          /\ callers' = return_from(c, outcome("int", <<callers[c].found[1][1]>>))
          /\ UNCHANGED <<_filespec_colname_index, _filespec_colname_lc>>
    /\ frame_of_callers
    /\ UNCHANGED <<_dicts_by_row, volume_vars, index_vars,
                   filespec_colname_index, filespec_colname, filespec_colname_lc>>

\* index_rows_by_filename_key: "if self._rows_by_filename is None",
\* "_ = self.volume_column_index()", "_ = self.filespec_column_index()"
IndexTest(c) ==
    /\ callers[c].at \in {"i_test", "i_filespec"}
    /\ callers' =
          IF callers[c].at = "i_filespec"
          THEN [callers EXCEPT ![c].at = "f_test", ![c].ret = "i_build"]
          ELSE IF _rows_by_filename = None
          THEN [callers EXCEPT ![c].at = "v_test", ![c].ret = "i_filespec"]
          ELSE goto(c, "i_keys")
    /\ frame_of_callers
    /\ UNCHANGED <<_dicts_by_row, volume_vars, filespec_vars, index_vars>>

\* from "filespecs = self.column_values[self._filespec_colname]" to the end
\* of the loop over the rows
IndexBuild(c) ==
    /\ callers[c].at = "i_build"
    /\ callers' =
          IF _filespec_colname = None \/ _filespec_colname[1] \notin DOMAIN column_values
          THEN raise_from(c, "KeyError")
          ELSE [callers EXCEPT ![c].at = "i_store_rows",
                   ![c].built = Some(index_rows(Self,
                                        column_values[_filespec_colname[1]],
                                        column_masks[_filespec_colname[1]], 1,
                                        [rows_by_filename |-> <<>>,
                                         filename_keys |-> <<>>, error |-> ""]))]
    /\ frame_of_callers
    /\ UNCHANGED <<_dicts_by_row, volume_vars, filespec_vars, index_vars>>

\* "self._rows_by_filename = rows_by_filename", "self.filename_keys =
\* filename_keys"
IndexStore(c) ==
    /\ callers[c].at \in {"i_store_rows", "i_store_keys"}
    /\ \/ /\ callers[c].at = "i_store_rows"
          /\ _rows_by_filename' = Some(callers[c].built[1].rows_by_filename)
          /\ callers' = goto(c, "i_store_keys")
          /\ UNCHANGED filename_keys
       \/ /\ callers[c].at = "i_store_keys"
          /\ filename_keys' = Some(callers[c].built[1].filename_keys)
          /\ callers' = [callers EXCEPT ![c].at = "i_keys", ![c].built = <<>>]
          /\ UNCHANGED _rows_by_filename
    /\ frame_of_callers
    /\ UNCHANGED <<_dicts_by_row, volume_vars, filespec_vars>>

\* the method has returned, and the caller reads self.filename_keys
IndexKeys(c) ==
    /\ callers[c].at = "i_keys"
    /\ callers' = return_from(c, IF filename_keys = None THEN outcome("None", <<>>)
                                 ELSE outcome("keys", filename_keys[1]))
    /\ frame_of_callers
    /\ UNCHANGED <<_dicts_by_row, volume_vars, filespec_vars, index_vars>>

NoLowercase == <<FALSE, FALSE>>

\* dicts_by_row(): "return self._dicts_by_row[lowercase]"
DictsTest(c) ==
    /\ callers[c].at = "d_test"
    /\ callers' =
          IF NoLowercase \in DOMAIN _dicts_by_row
          THEN return_from(c, outcome("dicts", _dicts_by_row[NoLowercase]))
          ELSE goto(c, "d_build")
    /\ frame_of_callers
    /\ UNCHANGED <<_dicts_by_row, volume_vars, filespec_vars, index_vars>>

\* "For each row...", "self._dicts_by_row[lowercase] = row_dicts; return
\* row_dicts"
DictsBuild(c) ==
    /\ callers[c].at = "d_build"
    /\ LET made == dicts_by_row_uncached(Self, NoLowercase)
       IN  /\ _dicts_by_row' = made.cache
           /\ callers' = IF made.error # "" THEN raise_from(c, made.error)
                         ELSE return_from(c, outcome("dicts", made.row_dicts))
    /\ frame_of_callers
    /\ UNCHANGED <<volume_vars, filespec_vars, index_vars>>

\* tables with and without a volume column and a file specification column
CallerColumnNames ==
    {<<VOLUME_ID, FILE_SPECIFICATION_NAME, NOTE>>, <<NOTE, FILENAME, Volume_Name>>,
     <<NOTE, PATH, TARGET>>}

InitCallers ==
    /\ InitTable
    /\ file \in {Record(V1, F_DIR, P1), Record(V1, F_DIR, P1) \o Record(V2, F_VMS, P2)}
    /\ label \in {FileLabel(names, RowsOf(file)) : names \in CallerColumnNames}
    /\ args = FileArgs(<<>>, 0)

NextCallers ==
    \/ Construct
    \/ \E c \in Callers :
          \/ \E op \in Methods : Call(c, op)
          \/ CallerReturns(c)
          \/ VolumeTest(c) \/ VolumeDefaults(c) \/ VolumeLoop(c) \/ VolumeFound(c)
          \/ FilespecTest(c) \/ FilespecDefaults(c) \/ FilespecLoop(c)
          \/ FilespecFound(c)
          \/ IndexTest(c) \/ IndexBuild(c) \/ IndexStore(c) \/ IndexKeys(c)
          \/ DictsTest(c) \/ DictsBuild(c)

SpecCallers == InitCallers /\ [][NextCallers]_vars

\* the constructed table with every cache unset
Fresh ==
    [Self EXCEPT !._dicts_by_row = <<>>,
                 !._volume_colname_index = None, !._volume_colname = None,
                 !._volume_colname_lc = None,
                 !._filespec_colname_index = None, !._filespec_colname = None,
                 !._filespec_colname_lc = None,
                 !.filespec_colname_index = None, !.filespec_colname = None,
                 !.filespec_colname_lc = None,
                 !._rows_by_filename = None, !.filename_keys = None]

IndexOutcome(indexed) ==
    IF indexed.error # "" THEN outcome("raise", <<indexed.error>>)
    ELSE outcome("keys", indexed.filename_keys[1])

DictsOutcome(got) ==
    IF got.error # "" THEN outcome("raise", <<got.error>>)
    ELSE outcome("dicts", got.row_dicts)

\* what the method returns to a single caller of the table
SequentialOutcome(op, fresh) ==
    CASE op = "volume_column_index" ->
            index_outcome(volume_column_index(fresh).value)
      [] op = "filespec_column_index" ->
            index_outcome(filespec_column_index(fresh).value)
      [] op = "index_rows_by_filename_key" ->
            IndexOutcome(index_rows_by_filename_key(fresh))
      [] op = "dicts_by_row" -> DictsOutcome(dicts_by_row(fresh, NoLowercase))

SameOutcome(a, b) == a.kind = b.kind /\ a.v = b.v

AsSequential(ops) ==
    \A c \in Callers :
        (callers[c].at = "done" /\ callers[c].op \in ops) =>
            SameOutcome(callers[c].out[1], SequentialOutcome(callers[c].op, Fresh))

\* C25: whatever the interleaving of two callers of volume_column_index,
\* filespec_column_index, index_rows_by_filename_key and dicts_by_row on one
\* constructed table, every call returns what a sequential call returns, and
\* a caller of index_rows_by_filename_key finds filename_keys set
C25_ConcurrentCallers == AsSequential(Methods)

\* the same of dicts_by_row alone, which stores its list in one assignment
ConcurrentDictsByRow == AsSequential({"dicts_by_row"})

\* a caller is told -1 by volume_column_index on a table with a volume column
VolumeIndexUnsetSeen ==
    \E c \in Callers :
        /\ callers[c].at = "done"
        /\ callers[c].op = "volume_column_index"
        /\ callers[c].out[1].kind = "int"
        /\ callers[c].out[1].v = <<-1>>
        /\ first_guess(VOLUME_ID_COLUMN_NAMES_lc, keys_lc(keys), 1) # None

\* a caller of index_rows_by_filename_key finds the index built and
\* filename_keys unset
FilenameKeysUnsetSeen ==
    \E c \in Callers :
        /\ callers[c].at = "done"
        /\ callers[c].op = "index_rows_by_filename_key"
        /\ callers[c].out[1].kind = "None"
        /\ _rows_by_filename # None

----------------------------------------------------------------------------
(* PdsTable.find_rows and PdsTable.find_row: claim C29 *)

\* self.find_rows(lowercase, **params)
find_rows(self, lowercase, params) ==
    rows_by(self, find_row_indices(self, lowercase, <<>>, {}, params))

\* self.find_row(lowercase, **params)
find_row(self, lowercase, params) ==
    row_by(self, find_row_index(self, lowercase, {}, params))

\* the state that find_rows and find_row leave
found_rows_return(out, lowercase, res) ==
    /\ _dicts_by_row' = out.cache
    /\ row_dict_builds' =
          (LET counted == IF out.built
                          THEN count_build(row_dict_builds, lowercase_pair(lowercase))
                          ELSE row_dict_builds
           IN  IF out.built_plain
               THEN count_build(counted, <<FALSE, FALSE>>)
               ELSE counted)
    /\ result' = res
    /\ pc' = "returned"
    /\ UNCHANGED <<label, file, args, callers, error, table_vars, volume_vars,
                   filespec_vars, index_vars>>

find_rows_returns(out, lowercase, params) ==
    found_rows_return(out, lowercase,
        [op |-> "find_rows", ok |-> out.error = "", error |-> out.error,
         lowercase |-> lowercase, params |-> params,
         matches |-> out.matches, rows |-> out.rows])

FindRows(lowercase, params) ==
    /\ pc = "ready"
    /\ find_rows_returns(find_rows(Self, lowercase, params), lowercase, params)

find_row_returns(out, lowercase, params) ==
    found_rows_return(out, lowercase,
        [op |-> "find_row", ok |-> out.error = "", error |-> out.error,
         lowercase |-> lowercase, params |-> params,
         matches |-> IF out.error = "" THEN <<out.index>> ELSE <<>>,
         rows |-> out.rows])

FindRow(lowercase, params) ==
    /\ pc = "ready"
    /\ find_row_returns(find_row(Self, lowercase, params), lowercase, params)

NextRows ==
    \/ Construct
    \/ \E lc \in LookupOptions, q \in Lookups(RingOf(label)) :
          q[1] = {} /\ FindRows(lc, q[2])
    \/ \E lc \in LookupOptions, q \in Lookups(RingOf(label)) :
          q[1] = {} /\ FindRow(lc, q[2])
    \/ Return

SpecRows == Init /\ [][NextRows]_vars

RowsFound ==
    pc = "returned" /\ result.op \in {"find_rows", "find_row"} /\ result.ok

\* the rows at the indices matched, in the row dictionaries of a variant
RowsOfVariant(variant) ==
    seq([j \in 1..Len(result.matches) |->
            _dicts_by_row[variant][result.matches[j] + 1]])

\* C29: find_rows and find_row return, for the indices that find_row_indices
\* and find_row_index give for the same lowercase option and predicates, the
\* row dictionaries of that same option, in that order
C29_RowsOfVariant ==
    RowsFound => result.rows = RowsOfVariant(lowercase_pair(result.lowercase))

\* they return the row dictionaries of the default option at those indices
RowsOfDefaultVariant ==
    RowsFound => result.rows = RowsOfVariant(<<FALSE, FALSE>>)

\* a row found by a predicate on a lower-cased key, returned without that key
FoundRowLacksKey ==
    /\ RowsFound
    /\ Len(result.rows) > 0
    /\ Len(result.params) > 0
    /\ result.params[1][1] \notin DOMAIN result.rows[1]

----------------------------------------------------------------------------
(* Every query on one table: claim C26 *)

\* self.get_column(name), self.get_column_mask(name): columns is
\* self.column_values or self.column_masks
get_column(columns, name) ==
    IF name \in DOMAIN columns
    THEN [error |-> "", value |-> columns[name]]
    ELSE [error |-> "KeyError", value |-> <<>>]

\* the state a call that touches no attribute leaves
getter_returns(res) ==
    /\ result' = res
    /\ pc' = "returned"
    /\ UNCHANGED <<label, file, args, callers, error, table_vars, _dicts_by_row,
                   row_dict_builds, volume_vars, filespec_vars, index_vars>>

GetColumn(name) ==
    /\ pc = "ready"
    /\ getter_returns([op |-> "get_column", name |-> name,
                       ok |-> get_column(column_values, name).error = "",
                       value |-> get_column(column_values, name).value])

GetColumnMask(name) ==
    /\ pc = "ready"
    /\ getter_returns([op |-> "get_column_mask", name |-> name,
                       ok |-> get_column(column_masks, name).error = "",
                       value |-> get_column(column_masks, name).value])

\* self.get_keys(): list(self.keys)
GetKeys ==
    /\ pc = "ready"
    /\ getter_returns([op |-> "get_keys", ok |-> TRUE, value |-> keys])

QueryColumnNames ==
    {<<VOLUME_ID, FILE_SPECIFICATION_NAME, PRODUCT_ID>>, <<NOTE, PATH, TARGET>>}

InitQueries ==
    /\ InitTable
    /\ file \in Files({Record(V1, F_DIR, P1), Record(V2, F_VMS, P2),
                       Record(V1, F_UNK, P1)}, MaxFileRows)
    /\ label \in {FileLabel(names, RowsOf(file)) : names \in QueryColumnNames}
    /\ args = FileArgs(<<>>, 0)

\* predicates on the first column of the table, by its name and by its
\* lower-case name with lower-cased values
QueryParams ==
    {<<>>, <<<<label.COLUMNS[1].NAME, py_str(V1)>>>>,
     <<<<lower(label.COLUMNS[1].NAME) \o LOWER_SUFFIX, py_str(V1)>>>>}

NextQueries ==
    \/ Construct
    \/ \E name \in {label.COLUMNS[2].NAME, NOTE} : GetColumn(name)
    \/ \E name \in {label.COLUMNS[2].NAME, NOTE} : GetColumnMask(name)
    \/ GetKeys
    \/ \E lc \in LookupOptions : DictsByRow(lc)
    \/ \E lc \in LookupOptions, limit \in FileLimits, q \in QueryParams :
          FindRowIndices(lc, limit, {}, q)
    \/ \E lc \in LookupOptions, q \in QueryParams : FindRowIndex(lc, {}, q)
    \/ \E lc \in LookupOptions, q \in QueryParams : FindRows(lc, q)
    \/ \E lc \in LookupOptions, q \in QueryParams : FindRow(lc, q)
    \/ VolumeColumnIndex
    \/ FilespecColumnIndex
    \/ \E limit \in FileLimits, substring \in BOOLEAN :
          FindRowIndicesByVolumeFilespec(<<"v","1">>, Some(Q_DIR), limit, substring)
    \/ FindRowIndexByVolumeFilespec(Q_DIR, None, FALSE)
    \/ \E limit \in FileLimits :
          FindRowsByVolumeFilespec(<<"v","1">>, Some(Q_DIR), limit, FALSE)
    \/ FindRowByVolumeFilespec(Q_DIR, None, FALSE)
    \/ IndexRowsByFilenameKey
    \/ \E key \in FilenameKeys : RowIndicesByFilenameKey(key)
    \/ Return

SpecQueries == InitQueries /\ [][NextQueries]_vars

\* an attribute that has been set keeps its value
SetOnce(attribute, after) == attribute # None => after = attribute

CachesOnlyFilled ==
    /\ SetOnce(_volume_colname_index, _volume_colname_index')
    /\ SetOnce(_volume_colname, _volume_colname')
    /\ SetOnce(_volume_colname_lc, _volume_colname_lc')
    /\ SetOnce(_filespec_colname_index, _filespec_colname_index')
    /\ SetOnce(_filespec_colname, _filespec_colname')
    /\ SetOnce(_filespec_colname_lc, _filespec_colname_lc')
    /\ SetOnce(filespec_colname_index, filespec_colname_index')
    /\ SetOnce(filespec_colname, filespec_colname')
    /\ SetOnce(filespec_colname_lc, filespec_colname_lc')
    /\ SetOnce(_rows_by_filename, _rows_by_filename')
    /\ SetOnce(filename_keys, filename_keys')
    /\ \A variant \in DOMAIN _dicts_by_row :
           /\ variant \in DOMAIN _dicts_by_row'
           /\ _dicts_by_row'[variant] = _dicts_by_row[variant]

\* C26: once the table is constructed, no query changes keys, first, rows,
\* column_values or column_masks; a cache attribute that is set is never
\* assigned another value, and an entry of _dicts_by_row is never removed or
\* replaced
C26_QueriesOnlyFillCaches ==
    [][pc # "new" =>
          /\ UNCHANGED <<keys, first, rows, column_values, column_masks>>
          /\ CachesOnlyFilled]_vars

\* find_rows has returned on a table whose caches are all set, with the row
\* dictionaries of two options
C26_Witness ==
    /\ pc = "returned"
    /\ result.op = "find_rows"
    /\ _volume_colname_index # None
    /\ _filespec_colname_index # None
    /\ _rows_by_filename # None
    /\ filename_keys # None
    /\ Cardinality(DOMAIN _dicts_by_row) = 2

----------------------------------------------------------------------------
(* The bytes of the items of a column: claim C27 *)

MaxBytes == 12

VALUED_2 == <<"2">> \o VALUED
VALUED_3 == <<"3">> \o VALUED
VALUED_4 == <<"4">> \o VALUED

\* the descriptions of a field: none, one without a count, counts of one
\* digit, a count of two digits, a count on the second line, and a count
\* after leading white space
Descriptions ==
    {<<>>, <<"m","a","x">>, <<"0">> \o VALUED, <<"1">> \o VALUED, VALUED_2,
     VALUED_3 \o <<" ","m","a","x">>, <<"a"," ">> \o VALUED_4,
     <<"1">> \o VALUED_2, <<"a","\n">> \o VALUED_3, <<"\n"," ">> \o VALUED_3}

\* a file area whose table has one field of the given length
AreaOfField(field_length, description) ==
    [File |-> [file_name |-> "a.tab"], records |-> 2, fields |-> 1,
     record_length |-> field_length + 1,
     columns |-> <<[name |-> N_NAME, field_number |-> 1, field_location |-> 1,
                    field_length |-> field_length,
                    data_type |-> "ASCII_Integer"]
                   @@ (IF description = <<>> THEN <<>>
                       ELSE [description |-> description])>>]

\* what a COLUMN object of a PDS3 label says of its items: nothing, their
\* count, their count and size, or their count, size and offset
ItemsOfColumn ==
    {<<>>} \cup {[ITEMS |-> n] : n \in 2..3}
    \cup {[ITEMS |-> n, ITEM_BYTES |-> b] : n \in 2..3, b \in 1..2}
    \cup {[ITEMS |-> n, ITEM_BYTES |-> b, ITEM_OFFSET |-> b + g] :
             n \in 2..3, b \in 1..2, g \in 0..1}

LabelOfColumn(bytes, items) ==
    [RECORD_TYPE |-> "FIXED_LENGTH", RECORD_BYTES |-> bytes + 1, ROWS |-> 2,
     ROW_BYTES |-> bytes + 1,
     COLUMNS |-> <<[NAME |-> N_NAME, START_BYTE |-> 1, BYTES |-> bytes,
                    DATA_TYPE |-> ASCII_INTEGER] @@ items>>]

InitGeometry ==
    /\ InitTable
    /\ file = <<>>
    /\ args = SchemaArgs(None)
    /\ label \in {py_dict(AreaOfField(b, d)) : b \in 1..MaxBytes, d \in Descriptions}
                 \cup {LabelOfColumn(b, items) :
                          b \in 1..MaxBytes, items \in ItemsOfColumn}

SpecGeometry == InitGeometry /\ [][NextSchema]_vars

\* the columns of a resolved label that have several items
ColumnsOfItems ==
    IF pc = "resolved" /\ result.ok
    THEN {j \in 1..Len(result.info.column_info_list) :
             /\ "items" \in DOMAIN result.info.column_info_list[j]
             /\ result.info.column_info_list[j].items > 1}
    ELSE {}

\* the bytes of a column: Pds4ColumnInfo holds them as Some(bytes) here
BytesOf(info) ==
    IF "description" \in DOMAIN info THEN info.bytes[1] ELSE info.bytes

\* byte_length == n * item_byte_length + (n - 1) * (item_offset -
\* item_byte_length)
ItemsFillColumn(info) ==
    BytesOf(info) = info.items * info.item_bytes
                    + (info.items - 1) * (info.item_offset - info.item_bytes)

\* C27: every resolved column of n > 1 items has byte_length = n *
\* item_byte_length + (n - 1) * (item_offset - item_byte_length), for every
\* byte_length and n, the columns of a PDS4 label whose items are counted
\* from an "N-valued" description included.
C27_ItemGeometry ==
    \A j \in ColumnsOfItems : ItemsFillColumn(result.info.column_info_list[j])

\* What holds of a PDS4 column of n > 1 items instead: each item is followed
\* by one byte; where the column has at least n - 1 bytes, its items and the
\* bytes between them take at most the bytes of the column and leave fewer
\* than n of them; and they fill the column exactly when n divides its bytes
\* plus one.
Pds4ItemsWithinColumn ==
    result.op = "Pds4TableInfo" =>
        \A j \in ColumnsOfItems :
            LET info == result.info.column_info_list[j]
                used == info.items * info.item_bytes + info.items - 1
            IN  /\ info.item_offset = info.item_bytes + 1
                /\ BytesOf(info) + 1 >= info.items =>
                       /\ used <= BytesOf(info)
                       /\ BytesOf(info) - used < info.items
                /\ ItemsFillColumn(info) <=> (BytesOf(info) + 1) % info.items = 0

\* a field of 10 bytes that its description calls 3-valued: items of 2
\* bytes every 3 bytes take 8 bytes
ItemsLeaveBytes ==
    /\ result.op = "Pds4TableInfo"
    /\ \E j \in ColumnsOfItems :
          LET info == result.info.column_info_list[j]
          IN  /\ BytesOf(info) = 10 /\ info.items = 3
              /\ info.item_bytes = 2 /\ info.item_offset = 3

\* a COLUMN object of a PDS3 label with ITEMS and neither ITEM_BYTES nor
\* ITEM_OFFSET: each item is as long as the column
ItemAsLongAsColumn ==
    /\ result.op = "PdsTableInfo"
    /\ \E j \in ColumnsOfItems :
          LET info == result.info.column_info_list[j]
          IN  info.item_bytes = info.bytes /\ info.item_offset = info.bytes

----------------------------------------------------------------------------
(* Masks are exact and values are kept: claim C28 *)

\* a valid range is declared and the number v lies outside it
Outside(v, info) ==
    /\ info.valid_range # <<>>
    /\ is_number(v)
    /\ (v.i < info.valid_range[1] \/ v.i > info.valid_range[2])

\* the reasons for which the entry read from raw may be masked: its
\* conversion failed, its value is an invalid value, or it lies outside the
\* valid range
MayBeMasked(info, raw) ==
    IF info.data_type = "string"
    THEN py_in(py_str(strip(raw)), info.invalid_values)
    ELSE \/ ~int(raw).ok
         \/ /\ int(raw).ok
            /\ \/ py_in(py_int(int(raw).v), info.invalid_values)
               \/ Outside(py_int(int(raw).v), info)

\* the entry stored for raw is what raw reads as
KeepsParsed(info, raw, stored) ==
    IF info.data_type = "string"
    THEN is_str(stored) /\ stored.s = strip(raw)
    ELSE int(raw).ok => is_number(stored) /\ stored.i = int(raw).v

\* the items that entry p of the mask of a row covers
ItemsUnder(info, mask, p) == IF Len(mask) = 1 THEN 1..ItemCount(info) ELSE {p}

ExactMasks(dict, lines) ==
    \A j \in 1..Len(SelectedKeys) : \A r \in 1..Len(lines) :
        LET name == SelectedKeys[j]
            info == dict[name]
        IN  /\ \A p \in 1..Len(column_masks[name][r]) :
                   column_masks[name][r][p] =>
                       \E i \in ItemsUnder(info, column_masks[name][r], p) :
                           MayBeMasked(info, item_field(info, lines[r], i))
            /\ \A i \in 1..ItemCount(info) :
                   KeepsParsed(info, item_field(info, lines[r], i),
                               EntryOf(name, r, i))

\* C28: in a constructed table a mask entry is True only if the conversion of
\* an entry it covers failed, or that entry is a member of invalid_values, or
\* a valid_range is declared and the entry lies outside it; and every entry
\* that converted holds its parsed value in column_values, masked or not.
C28_ExactMasks ==
    pc = "ready" => ExactMasks(DescribedTable.column_info_dict, DecodedLines)

\* N read from ' 3' and '-999' with invalid_values = {-999}, every entry
\* converted: the values are 3 and -999 and the mask is False and True
C28_Witness ==
    /\ pc = "ready"
    /\ N_NAME \in DOMAIN column_values
    /\ WarningsNaming(N_NAME) = <<>>
    /\ \E w \in DescribedTable.column_info_dict[N_NAME].invalid_values : w.i = -999
    /\ \E r, q \in 1..rows :
          /\ column_values[N_NAME][r].i = 3 /\ column_masks[N_NAME][r] = <<FALSE>>
          /\ column_values[N_NAME][q].i = -999 /\ column_masks[N_NAME][q] = <<TRUE>>

----------------------------------------------------------------------------
(* From a row to its filename key and back: claim C30 *)

\* tables whose file specifications differ in case, directory and extension
\* only, or are unknown
RoundTripRecords ==
    {Record(V1, F_DIR, P1), Record(V1, F_BARE, P1), Record(V2, F_VMS, P2),
     Record(V1, F_UNK, P1)}

KeyLengths == {0, 1, 2, 4}

InitRoundTrip ==
    /\ InitTable
    /\ file \in Files(RoundTripRecords, MaxFileRows)
    /\ label = FileLabel(<<VOLUME_ID, FILE_SPECIFICATION_NAME, PRODUCT_ID>>,
                         RowsOf(file))
    /\ args \in {FileArgs(<<>>, keylen) : keylen \in KeyLengths}

\* table.row_indices_by_filename_key(table.filename_key(filespec[r])) for an
\* unmasked row r, counted from 1
RowIndicesOfRow(r) ==
    /\ pc = "ready"
    /\ r <= rows
    /\ ~column_masks[FILE_SPECIFICATION_NAME][r][1]
    /\ row_indices_by_filename_key_returns(
          row_indices_by_filename_key(
              Self, filename_key(Self, column_values[FILE_SPECIFICATION_NAME][r].s)),
          filename_key(Self, column_values[FILE_SPECIFICATION_NAME][r].s))

NextRoundTrip ==
    \/ Construct
    \/ IndexRowsByFilenameKey
    \/ \E r \in 1..MaxFileRows : RowIndicesOfRow(r)
    \/ Return

SpecRoundTrip == InitRoundTrip /\ [][NextRoundTrip]_vars

\* the unmasked rows of the column, counted from 1
Unmasked(column) == {r \in 1..rows : ~column_masks[column][r][1]}

\* the places of row index k in the lists of the index
PlacesOf(rows_by_filename, k) ==
    {<<key, p>> \in UNION {{key} \X (1..Len(rows_by_filename[key])) :
                              key \in DOMAIN rows_by_filename} :
        rows_by_filename[key][p] = k}

\* the lookup returned is that of the key of row r
LookedUp(self, column, r) ==
    /\ RowIndicesByFilenameKeyReturned
    /\ result.key = filename_key(self, column_values[column][r].s)

\* filename_keys has one key for each entry of the index, as it is written in
\* the first row of the entry, the entries in the order of their first rows
KeysOfIndex(self, column, rows_by_filename, filenames) ==
    /\ Len(filenames) = Cardinality(DOMAIN rows_by_filename)
    /\ \A j \in 1..Len(filenames) :
          /\ lower(filenames[j]) \in DOMAIN rows_by_filename
          /\ filenames[j] =
                filename_key(self,
                    column_values[column][rows_by_filename[lower(filenames[j])][1] + 1].s)
    /\ \A i, j \in 1..Len(filenames) :
          i < j => /\ lower(filenames[i]) # lower(filenames[j])
                   /\ rows_by_filename[lower(filenames[i])][1]
                         < rows_by_filename[lower(filenames[j])][1]

RoundTrip(self, column) ==
    /\ \A r \in Unmasked(column) :
          LookedUp(self, column, r) => result.ok /\ \E p \in 1..Len(result.indices) :
                                                        result.indices[p] = r - 1
    /\ _rows_by_filename # None =>
          /\ \A r \in Unmasked(column) :
                Cardinality(PlacesOf(_rows_by_filename[1], r - 1)) = 1
          /\ filename_keys # None
          /\ KeysOfIndex(self, column, _rows_by_filename[1], filename_keys[1])

\* C30: on a table with a file specification column, whatever
\* filename_keylen, every row r whose file specification is unmasked is among
\* row_indices_by_filename_key(filename_key(filespec[r])); each unmasked row
\* is in exactly one list of the index, once; and filename_keys has one key
\* in its original case for each entry of the index, in the order of first
\* occurrence, no two of them equal up to case.
C30_FilenameKeyRoundTrip ==
    pc \in {"ready", "returned"} => RoundTrip(Self, FILE_SPECIFICATION_NAME)

\* the second row, 'ab.lbl' after 'd/Ab.TAB', has been looked up by its own
\* key 'ab' and found with the first under the one key 'Ab'
C30_Witness ==
    /\ rows = 2
    /\ LookedUp(Self, FILE_SPECIFICATION_NAME, 2)
    /\ result.key = <<"a","b">>
    /\ result.indices = <<0, 1>>
    /\ filename_keys = Some(<<<<"A","b">>>>)
    /\ args.filename_keylen = 0

\* a table cut to keys of one character, with an unknown file specification
\* left out of the index
C30_WitnessCut ==
    /\ RowIndicesByFilenameKeyReturned
    /\ args.filename_keylen = 1
    /\ result.ok
    /\ Unmasked(FILE_SPECIFICATION_NAME) # 1..rows
    /\ filename_keys = Some(<<<<"[">>>>)

====
